----------------------------- MODULE Spec2Model -----------------------------
(***************************************************************************)
(* A model of tools/build_insights_index.py: the bilingual tokenizer, the  *)
(* TF-IDF keyword ranker, the rule based topic classifier and the          *)
(* interaction heuristics with their bounded quote pools.                  *)
(*                                                                         *)
(* Text is a sequence of characters.  A character is a one-character       *)
(* string for ASCII ("a", " ", "\n") and the string "uXXXX" (four lower    *)
(* case hex digits of the code point) for everything else and for the      *)
(* backquote, "u0060", so that the                                         *)
(* length of a text is its number of characters, as in Python.             *)
(***************************************************************************)
EXTENDS Integers, Sequences, FiniteSets, TLC

(***************************************************************************)
(* Bounds of the model.                                                    *)
(***************************************************************************)
MaxPush == 3        \* insertions into a quote bucket after its initial fill
MaxScore == 2       \* quote scores are drawn from 1..MaxScore
MaxFrags == 3       \* a message is at most this many fragments long

(***************************************************************************)
(* Characters and strings.                                                 *)
(***************************************************************************)
Str(s) == [i \in 1..Len(s) |-> SubSeq(s, i, i)] \o <<>>

Range(f) == {f[i] : i \in DOMAIN f}

\* a function over 1..n as an explicit tuple
AsTuple(f) == f \o <<>>

\* <<1, ..., n>>
Indices(n) == [i \in 1..n |-> i]

\* F(v), with v evaluated once
With(v, F(_)) == CHOOSE r \in {F(x) : x \in {v}} : TRUE

Max(a, b) == IF a >= b THEN a ELSE b

Min(a, b) == IF a <= b THEN a ELSE b

ASCII_PRINTABLE ==
  <<
    " ", "!", "\"", "#", "$", "%", "&", "'", "(", ")", "*", "+", ",", "-", ".", "/",
    "0", "1", "2", "3", "4", "5", "6", "7", "8", "9", ":", ";", "<", "=", ">", "?",
    "@", "A", "B", "C", "D", "E", "F", "G", "H", "I", "J", "K", "L", "M", "N", "O",
    "P", "Q", "R", "S", "T", "U", "V", "W", "X", "Y", "Z", "[", "\\", "]", "^", "_",
    "u0060", "a", "b", "c", "d", "e", "f", "g", "h", "i", "j", "k", "l", "m", "n", "o",
    "p", "q", "r", "s", "t", "u", "v", "w", "x", "y", "z", "{", "|", "}", "~"
  >>

HEX_DIGITS == Str("0123456789abcdef")

UPPER == Str("ABCDEFGHIJKLMNOPQRSTUVWXYZ")

LOWER == Str("abcdefghijklmnopqrstuvwxyz")

DIGITS == Str("0123456789")

IndexOf(seq, x) == CHOOSE i \in DOMAIN seq : seq[i] = x

IsUpper(ch) == \E i \in DOMAIN UPPER : UPPER[i] = ch

IsLower(ch) == \E i \in DOMAIN LOWER : LOWER[i] = ch

IsLetter(ch) == IsUpper(ch) \/ IsLower(ch)

IsDigit(ch) == \E i \in DOMAIN DIGITS : DIGITS[i] = ch

\* the pattern class \s, on the characters of the model
IsSpace(ch) == ch \in {" ", "\n", "\t"}

HexVal(d) == IndexOf(HEX_DIGITS, d) - 1

\* ord(ch)
Ord(ch) ==
  IF ch = "\n" THEN 10
  ELSE IF ch = "\t" THEN 9
  ELSE IF Len(ch) = 1 THEN IndexOf(ASCII_PRINTABLE, ch) + 31
  ELSE 4096 * HexVal(SubSeq(ch, 2, 2)) + 256 * HexVal(SubSeq(ch, 3, 3))
       + 16 * HexVal(SubSeq(ch, 4, 4)) + HexVal(SubSeq(ch, 5, 5))

\* "一" <= ch <= "鿿"
IsCJK(ch) == Len(ch) = 5 /\ Ord(ch) >= 19968 /\ Ord(ch) <= 40959

\* ord(ch) < 128
IsAscii(ch) == Ord(ch) < 128

\* str.lower() of one character (only ASCII letters have a case here)
LowerCh(ch) == IF IsUpper(ch) THEN LOWER[IndexOf(UPPER, ch)] ELSE ch

\* str.lower()
LowerStr(t) == [i \in 1..Len(t) |-> LowerCh(t[i])] \o <<>>

\* Python's < on strings: lexicographic by code point
RECURSIVE StrLess(_, _)
StrLess(a, b) ==
  IF b = <<>> THEN FALSE
  ELSE IF a = <<>> THEN TRUE
  ELSE IF Head(a) = Head(b) THEN StrLess(Tail(a), Tail(b))
  ELSE Ord(Head(a)) < Ord(Head(b))

\* how many consecutive characters of line, from position from on, are in
\* the class P
Span(line, from, P(_)) ==
  IF \A i \in from..Len(line) : P(line[i]) THEN Max(0, Len(line) - from + 1)
  ELSE (CHOOSE i \in from..Len(line) :
          ~P(line[i]) /\ \A j \in from..(i - 1) : P(line[j])) - from

\* needle in text
Contains(text, needle) ==
  \/ needle = <<>>
  \/ \E i \in 1..(Len(text) - Len(needle) + 1) :
        text[i] = needle[1] /\ SubSeq(text, i, i + Len(needle) - 1) = needle

StartsWith(text, prefix) ==
  Len(text) >= Len(prefix) /\ SubSeq(text, 1, Len(prefix)) = prefix

EndsWith(text, suffix) ==
  Len(text) >= Len(suffix)
  /\ SubSeq(text, Len(text) - Len(suffix) + 1, Len(text)) = suffix

(* EN_STOPWORDS: English stop words (lower case). *)
EN_STOPWORDS ==
  {
    Str("a"), Str("about"), Str("also"), Str("an"), Str("and"), Str("app"), Str("are"), Str("as"),   \* a about also an and app are as
    Str("at"), Str("be"), Str("but"), Str("by"), Str("can"), Str("could"), Str("eight"), Str("first"),   \* at be but by can could eight first
    Str("five"), Str("for"), Str("four"), Str("from"), Str("get"), Str("got"), Str("has"), Str("have"),   \* five for four from get got has have
    Str("here"), Str("how"), Str("i"), Str("if"), Str("in"), Str("information"), Str("into"), Str("is"),   \* here how i if in information into is
    Str("it"), Str("its"), Str("just"), Str("key"), Str("keys"), Str("least"), Str("less"), Str("like"),   \* it its just key keys least less like
    Str("made"), Str("make"), Str("may"), Str("me"), Str("more"), Str("most"), Str("my"), Str("new"),   \* made make may me more most my new
    Str("nine"), Str("no"), Str("not"), Str("of"), Str("on"), Str("one"), Str("or"), Str("our"),   \* nine no not of on one or our
    Str("out"), Str("please"), Str("provide"), Str("provided"), Str("provides"), Str("second"), Str("seven"), Str("should"),   \* out please provide provided provides second seven should
    Str("six"), Str("ten"), Str("thank"), Str("thanks"), Str("that"), Str("the"), Str("their"), Str("them"),   \* six ten thank thanks that the their them
    Str("these"), Str("they"), Str("third"), Str("this"), Str("those"), Str("three"), Str("time"), Str("to"),   \* these they third this those three time to
    Str("two"), Str("used"), Str("useful"), Str("using"), Str("value"), Str("was"), Str("we"), Str("were"),   \* two used useful using value was we were
    Str("what"), Str("when"), Str("where"), Str("which"), Str("who"), Str("whom"), Str("why"), Str("will"),   \* what when where which who whom why will
    Str("with"), Str("would"), Str("yes"), Str("you"), Str("your")   \* with would yes you your
  }

(* ZH_STOPWORDS: Chinese stop words. *)
ZH_STOPWORDS ==
  {
    <<"u4e00","u4e0b">>, <<"u4e00","u4e2a">>, <<"u4e00","u4e2a","u4eba">>, <<"u4e00","u4e9b">>,   \* 一下 一个 一个人 一些
    <<"u4e0d","u4f1a">>, <<"u4e0e">>, <<"u4e3a","u4ec0","u4e48">>, <<"u4e4b","u524d">>,   \* 不会 与 为什么 之前
    <<"u4e4b","u540e">>, <<"u4e5f">>, <<"u4e86">>, <<"u4ec0","u4e48">>,   \* 之后 也 了 什么
    <<"u4ec0","u4e48","u6837">>, <<"u4ed6">>, <<"u4ed6","u4eec">>, <<"u4ee5","u4e0b">>,   \* 什么样 他 他们 以下
    <<"u4ee5","u53ca">>, <<"u4f46">>, <<"u4f60">>, <<"u4f60","u4eec">>,   \* 以及 但 你 你们
    <<"u4f8b","u5982">>, <<"u4fe1","u606f">>, <<"u5206","u949f">>, <<"u53ef","u4ee5">>,   \* 例如 信息 分钟 可以
    <<"u53ef","u80fd">>, <<"u540c","u65f6">>, <<"u548c">>, <<"u56e0","u4e3a">>,   \* 可能 同时 和 因为
    <<"u56e0","u6b64">>, <<"u5728">>, <<"u5979">>, <<"u5979","u4eec">>,   \* 因此 在 她 她们
    <<"u597d","u7684">>, <<"u5982","u4f55">>, <<"u5982","u679c">>, <<"u5b83">>,   \* 好的 如何 如果 它
    <<"u5b83","u4eec">>, <<"u5c0f","u65f6">>, <<"u5c31">>, <<"u5c31","u662f">>,   \* 它们 小时 就 就是
    <<"u5e76">>, <<"u5e94","u8be5">>, <<"u5f88">>, <<"u600e","u4e48">>,   \* 并 应该 很 怎么
    <<"u6211">>, <<"u6211","u4eec">>, <<"u6216">>, <<"u6240","u4ee5">>,   \* 我 我们 或 所以
    <<"u65f6","u95f4">>, <<"u662f">>, <<"u662f","u4ec0","u4e48">>, <<"u6709">>,   \* 时间 是 是什么 有
    <<"u6bd4","u5982">>, <<"u7136","u540e">>, <<"u73b0","u5728">>, <<"u7684">>,   \* 比如 然后 现在 的
    <<"u800c">>, <<"u8fd8">>, <<"u8fd8","u6709">>, <<"u8fd9","u4e2a">>,   \* 而 还 还有 这个
    <<"u8fd9","u4e9b">>, <<"u8fd9","u6837">>, <<"u8fd9","u79cd">>, <<"u8fd9","u91cc">>,   \* 这些 这样 这种 这里
    <<"u90a3","u4e2a">>, <<"u90a3","u4e9b">>, <<"u90a3","u6837">>, <<"u90a3","u79cd">>,   \* 那个 那些 那样 那种
    <<"u90a3","u91cc">>, <<"u95ee","u9898">>, <<"u9700","u8981">>, <<"u975e","u5e38">>   \* 那里 问题 需要 非常
  }

(* SHORT_ALLOW: short non-CJK terms that are kept. *)
SHORT_ALLOW ==
  {
    Str("ai"), Str("gpt"), Str("ml")   \* ai gpt ml
  }

(* NOISE_TERMS: export/tool artefact terms. *)
NOISE_TERMS ==
  {
    Str("all"), Str("asset_pointer"), Str("audio"), Str("cite"), Str("com"), Str("content"),   \* all asset_pointer audio cite com content
    Str("content_type"), Str("decoding_id"), Str("direction"), Str("expiry_datetime"), Str("file"), Str("group"),   \* content_type decoding_id direction expiry_datetime file group
    Str("image"), Str("loaded"), Str("metadata"), Str("nan"), Str("navlist"), Str("news"),   \* image loaded metadata nan navlist news
    Str("null"), Str("only"), Str("response_length"), Str("search_query"), Str("team"), Str("text"),   \* null only response_length search_query team text
    Str("textdoc_id"), Str("tool_audio_direction"), Str("turn"), Str("use"), Str("user"), Str("video"),   \* textdoc_id tool_audio_direction turn use user video
    Str("www")   \* www
  }

(* TOOL_JSON_KEYS: keys that mark a tool-call payload. *)
TOOL_JSON_KEYS ==
  {
    Str("args"), Str("call"), Str("function"), Str("path"), Str("response_length"), Str("search_query"), Str("tool"), Str("tool_calls")   \* args call function path response_length search_query tool tool_calls
  }

(* KEYWORD_BLACKLIST: terms never shown as keyword or topic label. *)
KEYWORD_BLACKLIST ==
  {
    Str("async"), Str("await"), Str("babel"), Str("class"), Str("const"), Str("css"), Str("eslint"), Str("export"),   \* async await babel class const css eslint export
    Str("extends"), Str("function"), Str("gif"), Str("html"), Str("implements"), Str("import"), Str("interface"), Str("jpeg"),   \* extends function gif html implements import interface jpeg
    Str("jpg"), Str("js"), Str("json"), Str("jsx"), Str("let"), Str("md"), Str("node_modules"), Str("png"),   \* jpg js json jsx let md node_modules png
    Str("prettier"), Str("private"), Str("props"), Str("protected"), Str("public"), Str("return"), Str("state"), Str("svg"),   \* prettier private props protected public return state svg
    Str("ts"), Str("tsx"), Str("type"), Str("var"), Str("vite"), Str("webp"), Str("webpack"), Str("yaml"),   \* ts tsx type var vite webp webpack yaml
    Str("yml")   \* yml
  }

(* TERM_ALIASES: display alias of a term, as <<key, alias>> pairs. *)
TERM_ALIASES ==
  {
    <<Str("ai"), Str("AI")>>,   \* ai -> AI
    <<Str("gpt"), Str("GPT")>>,   \* gpt -> GPT
    <<Str("llm"), Str("LLM")>>,   \* llm -> LLM
    <<Str("openai"), Str("OpenAI")>>,   \* openai -> OpenAI
    <<Str("gemini"), Str("Gemini")>>,   \* gemini -> Gemini
    <<Str("claude"), Str("Claude")>>,   \* claude -> Claude
    <<Str("deepseek"), Str("DeepSeek")>>,   \* deepseek -> DeepSeek
    <<Str("prompt"), <<"u63d0","u793a","u8bcd">>>>,   \* prompt -> 提示词
    <<Str("prompts"), <<"u63d0","u793a","u8bcd">>>>,   \* prompts -> 提示词
    <<Str("embedding"), <<"u5411","u91cf">>>>,   \* embedding -> 向量
    <<Str("embeddings"), <<"u5411","u91cf">>>>,   \* embeddings -> 向量
    <<Str("fine-tune"), <<"u5fae","u8c03">>>>,   \* fine-tune -> 微调
    <<Str("finetune"), <<"u5fae","u8c03">>>>,   \* finetune -> 微调
    <<Str("transformer"), Str("Transformer")>>,   \* transformer -> Transformer
    <<Str("transformers"), Str("Transformer")>>,   \* transformers -> Transformer
    <<<<"u4eba","u5de5","u667a","u80fd">>, Str("AI")>>,   \* 人工智能 -> AI
    <<<<"u5927","u6a21","u578b">>, <<"u5927","u6a21","u578b">>>>,   \* 大模型 -> 大模型
    <<<<"u673a","u5668","u5b66","u4e60">>, <<"u673a","u5668","u5b66","u4e60">>>>,   \* 机器学习 -> 机器学习
    <<<<"u6df1","u5ea6","u5b66","u4e60">>, <<"u6df1","u5ea6","u5b66","u4e60">>>>,   \* 深度学习 -> 深度学习
    <<<<"u63d0","u793a","u8bcd">>, <<"u63d0","u793a","u8bcd">>>>,   \* 提示词 -> 提示词
    <<Str("investment"), <<"u6295","u8d44">>>>,   \* investment -> 投资
    <<Str("invest"), <<"u6295","u8d44">>>>,   \* invest -> 投资
    <<Str("investing"), <<"u6295","u8d44">>>>,   \* investing -> 投资
    <<Str("portfolio"), <<"u6295","u8d44","u7ec4","u5408">>>>,   \* portfolio -> 投资组合
    <<Str("stock"), <<"u80a1","u7968">>>>,   \* stock -> 股票
    <<Str("stocks"), <<"u80a1","u7968">>>>,   \* stocks -> 股票
    <<Str("equity"), <<"u80a1","u6743">>>>,   \* equity -> 股权
    <<Str("bond"), <<"u503a","u5238">>>>,   \* bond -> 债券
    <<Str("bonds"), <<"u503a","u5238">>>>,   \* bonds -> 债券
    <<Str("etf"), Str("ETF")>>,   \* etf -> ETF
    <<Str("etfs"), Str("ETF")>>,   \* etfs -> ETF
    <<Str("option"), <<"u671f","u6743">>>>,   \* option -> 期权
    <<Str("options"), <<"u671f","u6743">>>>,   \* options -> 期权
    <<Str("future"), <<"u671f","u8d27">>>>,   \* future -> 期货
    <<Str("futures"), <<"u671f","u8d27">>>>,   \* futures -> 期货
    <<Str("finance"), <<"u91d1","u878d">>>>,   \* finance -> 金融
    <<Str("financial"), <<"u91d1","u878d">>>>,   \* financial -> 金融
    <<Str("trading"), <<"u4ea4","u6613">>>>,   \* trading -> 交易
    <<Str("trade"), <<"u4ea4","u6613">>>>,   \* trade -> 交易
    <<Str("market"), <<"u5e02","u573a">>>>,   \* market -> 市场
    <<Str("markets"), <<"u5e02","u573a">>>>,   \* markets -> 市场
    <<Str("risk"), <<"u98ce","u9669">>>>,   \* risk -> 风险
    <<Str("returns"), <<"u6536","u76ca">>>>,   \* returns -> 收益
    <<Str("yield"), <<"u6536","u76ca">>>>,   \* yield -> 收益
    <<Str("volatility"), <<"u6ce2","u52a8">>>>,   \* volatility -> 波动
    <<Str("drawdown"), <<"u56de","u64a4">>>>,   \* drawdown -> 回撤
    <<Str("valuation"), <<"u4f30","u503c">>>>,   \* valuation -> 估值
    <<Str("nasdaq"), <<"u7eb3","u65af","u8fbe","u514b">>>>,   \* nasdaq -> 纳斯达克
    <<Str("sp500"), <<"u6807","u666e","5","0","0">>>>,   \* sp500 -> 标普500
    <<Str("s&p"), <<"u6807","u666e">>>>,   \* s&p -> 标普
    <<Str("ibkr"), <<"u76c8","u900f">>>>,   \* ibkr -> 盈透
    <<Str("data"), <<"u6570","u636e">>>>,   \* data -> 数据
    <<Str("dataset"), <<"u6570","u636e">>>>,   \* dataset -> 数据
    <<<<"u7406","u8d22">>, <<"u7406","u8d22">>>>,   \* 理财 -> 理财
    <<<<"u6295","u8d44">>, <<"u6295","u8d44">>>>,   \* 投资 -> 投资
    <<<<"u57fa","u91d1">>, <<"u57fa","u91d1">>>>,   \* 基金 -> 基金
    <<<<"u80a1","u7968">>, <<"u80a1","u7968">>>>,   \* 股票 -> 股票
    <<<<"u503a","u5238">>, <<"u503a","u5238">>>>,   \* 债券 -> 债券
    <<<<"u671f","u6743">>, <<"u671f","u6743">>>>,   \* 期权 -> 期权
    <<<<"u671f","u8d27">>, <<"u671f","u8d27">>>>,   \* 期货 -> 期货
    <<<<"u8d44","u4ea7","u914d","u7f6e">>, <<"u8d44","u4ea7","u914d","u7f6e">>>>,   \* 资产配置 -> 资产配置
    <<<<"u8d44","u672c","u5e02","u573a">>, <<"u8d44","u672c","u5e02","u573a">>>>,   \* 资本市场 -> 资本市场
    <<<<"u5e02","u76c8","u7387">>, <<"u5e02","u76c8","u7387">>>>,   \* 市盈率 -> 市盈率
    <<<<"u73b0","u91d1","u6d41">>, <<"u73b0","u91d1","u6d41">>>>,   \* 现金流 -> 现金流
    <<Str("typescript"), Str("TypeScript")>>,   \* typescript -> TypeScript
    <<Str("javascript"), Str("JavaScript")>>,   \* javascript -> JavaScript
    <<Str("python"), Str("Python")>>,   \* python -> Python
    <<Str("react"), Str("React")>>,   \* react -> React
    <<Str("firebase"), Str("Firebase")>>,   \* firebase -> Firebase
    <<Str("github"), Str("GitHub")>>,   \* github -> GitHub
    <<Str("vscode"), Str("VSCode")>>,   \* vscode -> VSCode
    <<Str("cursor"), Str("Cursor")>>,   \* cursor -> Cursor
    <<Str("sql"), Str("SQL")>>   \* sql -> SQL
  }

(* PINNED_KEYWORDS: hot terms listed first, in this order. *)
PINNED_KEYWORDS ==
  <<
    <<"u6295","u8d44">>, <<"u7406","u8d22">>, <<"u57fa","u91d1">>, <<"u80a1","u7968">>,   \* 投资 理财 基金 股票
    <<"u503a","u5238">>, Str("ETF"), Str("AI"), Str("GPT"),   \* 债券 ETF AI GPT
    Str("MBA"), <<"u7f16","u7a0b">>, <<"u5f00","u53d1">>, <<"u8fd0","u52a8">>,   \* MBA 编程 开发 运动
    <<"u7761","u7720">>   \* 睡眠
  >>

(* TOPIC_RULES: ordered (label, trigger set) pairs; earlier rules win ties. *)
TOPIC_RULES ==
  <<
    [label |-> <<"u6295","u8d44","u7406","u8d22">>,   \* 投资理财
     triggers |-> {
        <<"A","u80a1">>, Str("ETF"), <<"u4ea4","u6613">>, <<"u4f30","u503c">>,   \* A股 ETF 交易 估值
        <<"u503a","u5238">>, <<"u52a0","u5bc6">>, <<"u56de","u64a4">>, <<"u57fa","u91d1">>,   \* 债券 加密 回撤 基金
        <<"u5e02","u76c8","u7387">>, <<"u6295","u8d44">>, <<"u6536","u76ca">>, <<"u671f","u6743">>,   \* 市盈率 投资 收益 期权
        <<"u671f","u8d27">>, <<"u6807","u666e","5","0","0">>, <<"u6bd4","u7279","u5e01">>, <<"u6e2f","u80a1">>,   \* 期货 标普500 比特币 港股
        <<"u73b0","u91d1","u6d41">>, <<"u7406","u8d22">>, <<"u76c8","u900f">>, <<"u7eb3","u65af","u8fbe","u514b">>,   \* 现金流 理财 盈透 纳斯达克
        <<"u7f8e","u80a1">>, <<"u80a1","u7968">>, <<"u8d44","u4ea7","u914d","u7f6e">>, <<"u8d44","u672c","u5e02","u573a">>,   \* 美股 股票 资产配置 资本市场
        <<"u91d1","u878d">>, <<"u98ce","u9669">>   \* 金融 风险
     }],
    [label |-> <<"u7f16","u7a0b","u5f00","u53d1">>,   \* 编程开发
     triggers |-> {
        Str("API"), Str("Cursor"), Str("Docker"), Str("Firebase"),   \* API Cursor Docker Firebase
        Str("GitHub"), Str("JavaScript"), Str("Python"), Str("React"),   \* GitHub JavaScript Python React
        Str("SQL"), Str("TypeScript"), Str("VSCode"), <<"u4ee3","u7801">>,   \* SQL TypeScript VSCode 代码
        <<"u524d","u7aef">>, <<"u540e","u7aef">>, <<"u5f00","u53d1">>, <<"u62a5","u9519">>,   \* 前端 后端 开发 报错
        <<"u6570","u636e","u5e93">>, <<"u6d4b","u8bd5">>, <<"u7f16","u7a0b">>, <<"u8c03","u8bd5">>,   \* 数据库 测试 编程 调试
        <<"u90e8","u7f72">>   \* 部署
     }],
    [label |-> <<"A","I","/","u5927","u6a21","u578b">>,   \* AI/大模型
     triggers |-> {
        Str("AI"), Str("Claude"), Str("GPT"), Str("Gemini"),   \* AI Claude GPT Gemini
        Str("LLM"), Str("OpenAI"), Str("Transformer"), <<"u5411","u91cf">>,   \* LLM OpenAI Transformer 向量
        <<"u5927","u6a21","u578b">>, <<"u5fae","u8c03">>, <<"u63d0","u793a","u8bcd">>, <<"u673a","u5668","u5b66","u4e60">>,   \* 大模型 微调 提示词 机器学习
        <<"u6df1","u5ea6","u5b66","u4e60">>   \* 深度学习
     }],
    [label |-> <<"u804c","u573a","u7ba1","u7406">>,   \* 职场管理
     triggers |-> {
        Str("MBA"), Str("OKR"), <<"u56e2","u961f">>, <<"u6c47","u62a5">>,   \* MBA OKR 团队 汇报
        <<"u6c9f","u901a">>, <<"u7b80","u5386">>, <<"u7ba1","u7406">>, <<"u804c","u4e1a">>,   \* 沟通 简历 管理 职业
        <<"u804c","u573a">>, <<"u9762","u8bd5">>, <<"u9886","u5bfc","u529b">>   \* 职场 面试 领导力
     }],
    [label |-> <<"u5b66","u4e60","u6559","u80b2">>,   \* 学习教育
     triggers |-> {
        Str("assignment"), Str("course"), Str("exam"), Str("study"),   \* assignment course exam study
        Str("university"), <<"u4f5c","u4e1a">>, <<"u5927","u5b66">>, <<"u5b66","u4e60">>,   \* university 作业 大学 学习
        <<"u5b66","u5206">>, <<"u5b66","u6821">>, <<"u7533","u8bf7">>, <<"u7559","u5b66">>,   \* 学分 学校 申请 留学
        <<"u8003","u8bd5">>, <<"u8bba","u6587">>, <<"u8bfe","u7a0b">>, <<"u8bfe","u8868">>,   \* 考试 论文 课程 课表
        <<"u9879","u76ee">>   \* 项目
     }],
    [label |-> <<"u51fa","u884c","u65c5","u884c">>,   \* 出行旅行
     triggers |-> {
        Str("flight"), Str("hotel"), Str("itinerary"), Str("travel"),   \* flight hotel itinerary travel
        Str("visa"), <<"u653b","u7565">>, <<"u65c5","u884c">>, <<"u666f","u70b9">>,   \* visa 攻略 旅行 景点
        <<"u673a","u7968">>, <<"u79df","u8f66">>, <<"u7b7e","u8bc1">>, <<"u822a","u73ed">>,   \* 机票 租车 签证 航班
        <<"u884c","u7a0b">>, <<"u8def","u7ebf">>, <<"u9152","u5e97">>   \* 行程 路线 酒店
     }],
    [label |-> <<"u751f","u6d3b","u670d","u52a1">>,   \* 生活服务
     triggers |-> {
        Str("housing"), Str("insurance"), Str("rent"), Str("service"),   \* housing insurance rent service
        Str("tax"), <<"u4ea4","u901a">>, <<"u4f4f","u623f">>, <<"u4fdd","u9669">>,   \* tax 交通 住房 保险
        <<"u533b","u7597">>, <<"u5c45","u4f4f">>, <<"u623f","u4e1c">>, <<"u624b","u673a">>,   \* 医疗 居住 房东 手机
        <<"u751f","u6d3b">>, <<"u79df","u623f">>, <<"u7a0e","u52a1">>, <<"u8d2d","u7269">>,   \* 生活 租房 税务 购物
        <<"u94f6","u884c">>, <<"u9910","u5385">>   \* 银行 餐厅
     }],
    [label |-> <<"u5065","u5eb7","u8fd0","u52a8">>,   \* 健康运动
     triggers |-> {
        Str("HIIT"), <<"u5065","u8eab">>, <<"u51cf","u8102">>, <<"u5496","u5561">>,   \* HIIT 健身 减脂 咖啡
        <<"u5496","u5561","u56e0">>, <<"u5fc3","u7387">>, <<"u7761","u7720">>, <<"u8425","u517b">>,   \* 咖啡因 心率 睡眠 营养
        <<"u8840","u538b">>, <<"u8840","u8102">>, <<"u8bad","u7ec3">>, <<"u8dd1","u6b65">>,   \* 血压 血脂 训练 跑步
        <<"u8fd0","u52a8">>   \* 运动
     }],
    [label |-> <<"u8f6f","u4ef6","u5de5","u5177">>,   \* 软件工具
     triggers |-> {
        Str("Chrome"), Str("Cursor"), Str("Figma"), Str("GitHub"),   \* Chrome Cursor Figma GitHub
        Str("Mac"), Str("Obsidian"), Str("VSCode"), Str("Windows"),   \* Mac Obsidian VSCode Windows
        <<"u4ee3","u7406">>, <<"u7f51","u7edc">>   \* 代理 网络
     }]
  >>

(* DOMAIN_ZH_TERMS: allowlist always united into the vocabulary. *)
DOMAIN_ZH_TERMS ==
  {
    <<"A","u80a1">>, <<"u4f30","u503c">>, <<"u4fdd","u9669">>, <<"u503a","u5238">>,   \* A股 估值 保险 债券
    <<"u524d","u7aef">>, <<"u52a0","u5bc6">>, <<"u540e","u7aef">>, <<"u5496","u5561","u56e0">>,   \* 前端 加密 后端 咖啡因
    <<"u56de","u64a4">>, <<"u57fa","u91d1">>, <<"u5927","u6a21","u578b">>, <<"u5e02","u76c8","u7387">>,   \* 回撤 基金 大模型 市盈率
    <<"u5fc3","u7387">>, <<"u6295","u8d44">>, <<"u62a5","u9519">>, <<"u63d0","u793a","u8bcd">>,   \* 心率 投资 报错 提示词
    <<"u6570","u636e","u5e93">>, <<"u671f","u6743">>, <<"u671f","u8d27">>, <<"u673a","u5668","u5b66","u4e60">>,   \* 数据库 期权 期货 机器学习
    <<"u673a","u7968">>, <<"u6807","u666e","5","0","0">>, <<"u6bd4","u7279","u5e01">>, <<"u6d4b","u8bd5">>,   \* 机票 标普500 比特币 测试
    <<"u6df1","u5ea6","u5b66","u4e60">>, <<"u6e2f","u80a1">>, <<"u73b0","u91d1","u6d41">>, <<"u7406","u8d22">>,   \* 深度学习 港股 现金流 理财
    <<"u7559","u5b66">>, <<"u79df","u623f">>, <<"u7b7e","u8bc1">>, <<"u7eb3","u65af","u8fbe","u514b">>,   \* 留学 租房 签证 纳斯达克
    <<"u7f8e","u80a1">>, <<"u8003","u8bd5">>, <<"u80a1","u7968">>, <<"u822a","u73ed">>,   \* 美股 考试 股票 航班
    <<"u8840","u538b">>, <<"u8840","u8102">>, <<"u8bfe","u7a0b">>, <<"u8c03","u8bd5">>,   \* 血压 血脂 课程 调试
    <<"u8d44","u4ea7","u914d","u7f6e">>, <<"u8d44","u672c","u5e02","u573a">>, <<"u90e8","u7f72">>   \* 资产配置 资本市场 部署
  }

(* REQUEST_RE: the alternatives of the pattern (matched ignoring case). *)
REQUEST_RE_ALTS ==
  {
    Str("can you"), Str("could you"), Str("how"), Str("what"), Str("why"), <<"u4e3a","u4ec0","u4e48">>,   \* can you could you how what why 为什么
    <<"u53ef","u5426">>, <<"u5982","u4f55">>, <<"u5e2e","u5fd9">>, <<"u5e2e","u6211">>, <<"u600e","u4e48">>, <<"u600e","u4e48","u505a">>,   \* 可否 如何 帮忙 帮我 怎么 怎么做
    <<"u80fd","u5426">>, <<"u8bf7">>, <<"u8bf7","u95ee">>   \* 能否 请 请问
  }

(* CONTEXT_RE: the alternatives of the pattern (matched ignoring case). *)
CONTEXT_RE_ALTS ==
  {
    <<"u56e0","u4e3a">>, <<"u573a","u666f">>, <<"u60c5","u51b5">>, <<"u6211","u5728">>, <<"u6211","u662f">>, <<"u6211","u73b0","u5728">>,   \* 因为 场景 情况 我在 我是 我现在
    <<"u6211","u7684">>, <<"u6211","u76ee","u524d">>, <<"u6253","u7b97">>, <<"u73b0","u72b6">>, <<"u76ee","u6807">>, <<"u80cc","u666f">>,   \* 我的 我目前 打算 现状 目标 背景
    <<"u8ba1","u5212">>, <<"u9700","u6c42">>   \* 计划 需求
  }

(* CONSTRAINT_RE: the alternatives of the pattern (matched ignoring case). *)
CONSTRAINT_RE_ALTS ==
  {
    Str("budget"), Str("limit"), Str("must"), Str("only"), Str("prefer"), <<"u4e0d","u4f4e","u4e8e">>,   \* budget limit must only prefer 不低于
    <<"u4e0d","u60f3">>, <<"u4e0d","u8981">>, <<"u4e0d","u8d85","u8fc7">>, <<"u4e0d","u9ad8","u4e8e">>, <<"u4ee5","u4e0a">>, <<"u4ee5","u5185">>,   \* 不想 不要 不超过 不高于 以上 以内
    <<"u5fc5","u987b">>, <<"u6700","u591a">>, <<"u81f3","u5c11">>, <<"u9650","u5236">>, <<"u9884","u7b97">>   \* 必须 最多 至少 限制 预算
  }

(* FEEDBACK_RE: the alternatives of the pattern (matched ignoring case). *)
FEEDBACK_RE_ALTS ==
  {
    <<"u4e0d","u591f">>, <<"u4e0d","u592a">>, <<"u4e0d","u5bf9">>, <<"u4e0d","u662f">>, <<"u4e0d","u6ee1","u610f">>, <<"u4f18","u5316">>,   \* 不够 不太 不对 不是 不满意 优化
    <<"u4fee","u6539">>, <<"u518d">>, <<"u592a","u77ed">>, <<"u592a","u957f">>, <<"u6539","u4e00","u4e0b">>, <<"u6539","u6210">>,   \* 修改 再 太短 太长 改一下 改成
    <<"u66f4","u6b63">>, <<"u7cbe","u7b80">>, <<"u7ee7","u7eed">>, <<"u8865","u5145">>, <<"u8c03","u6574">>, <<"u9519","u8bef">>   \* 更正 精简 继续 补充 调整 错误
  }

(* BOUNDARY_RE: the alternatives of the pattern (matched ignoring case). *)
BOUNDARY_RE_ALTS ==
  {
    Str("as an ai"), Str("i can't"), Str("i cannot"), Str("i do not have access"), Str("i don't have access"), <<"u4e0d","u4f1a">>,   \* as an ai i can't i cannot i do not have access i don't have access 不会
    <<"u4e0d","u4fbf">>, <<"u4e0d","u5177","u5907">>, <<"u4e0d","u652f","u6301">>, <<"u4e0d","u80fd">>, <<"u6211","u4e0d","u80fd">>, <<"u6211","u65e0","u6cd5">>,   \* 不便 不具备 不支持 不能 我不能 我无法
    <<"u65e0","u6cd5">>, <<"u65e0","u6cd5","u63d0","u4f9b">>, <<"u65e0","u6cd5","u6d4f","u89c8">>, <<"u65e0","u6cd5","u8bbf","u95ee">>, <<"u6ca1","u6709","u5b9e","u65f6">>   \* 无法 无法提供 无法浏览 无法访问 没有实时
  }

(* CLARIFY_RE: the alternatives of the pattern (matched ignoring case). *)
CLARIFY_RE_ALTS ==
  {
    <<"u5177","u4f53","u4e00","u70b9">>, <<"u66f4","u591a","u4fe1","u606f">>, <<"u80fd","u5426","u63d0","u4f9b">>, <<"u8bf7","u63d0","u4f9b">>, <<"u8bf7","u8865","u5145">>, <<"u8fd8","u9700","u8981">>,   \* 具体一点 更多信息 能否提供 请提供 请补充 还需要
    <<"u8fdb","u4e00","u6b65","u8bf4","u660e">>, <<"u9700","u8981","u66f4","u591a">>   \* 进一步说明 需要更多
  }

(* UNIT_RE: the unit alternatives that may follow the digits. *)
UNIT_RE_UNITS ==
  {
    Str("%"), Str("day"), Str("dollar"), Str("gb"), Str("hour"), Str("k"), Str("km"), Str("m"),   \* % day dollar gb hour k km m
    Str("mb"), Str("min"), Str("rmb"), Str("usd"), Str("w"), <<"u00a5">>, <<"u4e07">>, <<"u5143">>,   \* mb min rmb usd w ¥ 万 元
    <<"u516c","u91cc">>, <<"u5206","u949f">>, <<"u5468">>, <<"u5929">>, <<"u5c0f","u65f6">>, <<"u5e74">>, <<"u6708">>, <<"u7f8e","u5143">>,   \* 公里 分钟 周 天 小时 年 月 美元
    <<"uffe5">>   \* ￥
  }

(***************************************************************************)
(* Text extraction: normalize_body, extract_text, strip_artifact_lines.    *)
(***************************************************************************)
\* the elements of seq at the positions idx, in that order
Pick(seq, idx) == [k \in 1..Len(idx) |-> seq[idx[k]]]

\* str.strip()
Strip(text) ==
  LET ns == {i \in DOMAIN text : ~IsSpace(text[i])}
  IN IF ns = {} THEN <<>>
     ELSE SubSeq(text,
                 CHOOSE i \in ns : \A j \in 1..(i - 1) : IsSpace(text[j]),
                 CHOOSE i \in ns : \A j \in (i + 1)..Len(text) : IsSpace(text[j]))

\* str.splitlines(): the pieces between the newlines, no empty last piece
LinesAt(text, nl) ==
  [k \in 1..(Len(nl) + (IF Len(text) > 0 /\ text[Len(text)] # "\n" THEN 1 ELSE 0)) |->
     SubSeq(text,
            IF k = 1 THEN 1 ELSE nl[k - 1] + 1,
            IF k <= Len(nl) THEN nl[k] - 1 ELSE Len(text))]

SplitLines(text) ==
  LET IsNl(i) == text[i] = "\n"
  IN AsTuple(LinesAt(text, SelectSeq(Indices(Len(text)), IsNl)))

\* "\n".join(lines)
RECURSIVE JoinLines(_)
JoinLines(lines) ==
  IF lines = <<>> THEN <<>>
  ELSE IF Len(lines) = 1 THEN lines[1]
  ELSE lines[1] \o <<"\n">> \o JoinLines(Tail(lines))

CODE_FENCE == <<"u0060", "u0060", "u0060">>

CITE_OPEN == "ue200"

CITE_CLOSE == "ue201"

\* CITE_RE.sub("", line): every span from a CITE_OPEN to the next CITE_CLOSE
\* goes; position i lies in such a span iff an opener at or before it is
\* followed by a closer at or after it with no closer in between
InCite(line, i) ==
  \E a \in 1..i : \E b \in i..Len(line) :
     /\ b > a
     /\ line[a] = CITE_OPEN
     /\ line[b] = CITE_CLOSE
     /\ \A j \in (a + 1)..(i - 1) : line[j] # CITE_CLOSE

CiteSub(line) ==
  LET Keep(i) == ~InCite(line, i)
  IN IF \A i \in DOMAIN line : line[i] # CITE_OPEN THEN line
     ELSE AsTuple(Pick(line, SelectSeq(Indices(Len(line)), Keep)))

LIST_BULLETS == {"-", "*", "u2022"}

LIST_NUMBER_ENDS == {".", "u3001"}

\* the length of the match of LIST_PREFIX_RE at the start of line, 0 if none:
\* ^\s*(?:[-*•]|\d+[\.、])\s*
ListPrefixLen(line) ==
  LET lead == Span(line, 1, IsSpace)
      digits == Span(line, lead + 1, IsDigit)
      mark == IF lead + 1 <= Len(line) /\ line[lead + 1] \in LIST_BULLETS
                THEN lead + 1
              ELSE IF /\ digits > 0
                      /\ lead + digits + 1 <= Len(line)
                      /\ line[lead + digits + 1] \in LIST_NUMBER_ENDS
                THEN lead + digits + 1
              ELSE 0
  IN IF mark = 0 THEN 0 ELSE mark + Span(line, mark + 1, IsSpace)

\* LIST_PREFIX_RE.sub("", line)
ListPrefixSub(line) == SubSeq(line, ListPrefixLen(line) + 1, Len(line))

SEDIMENT == Str("sediment://")

IMAGE_TAG == Str("[image]")

\* is the line a code fence; a fence toggles in_code
IsFence(line) == StartsWith(Strip(line), CODE_FENCE)

\* what one line of a body contributes to normalize_body: <<>> if nothing.
\* A line that starts with "{" and ends with "}" is a JSON payload line; it
\* contributes only as a transcription payload, which the texts of the model
\* do not contain.
NormalizeLine(line) ==
  LET stripped == Strip(line)
  IN IF stripped = <<>> THEN <<>>
     ELSE IF StartsWith(stripped, <<"{">>) /\ EndsWith(stripped, <<"}">>) THEN <<>>
     ELSE IF Contains(stripped, SEDIMENT) THEN <<>>
     ELSE IF StartsWith(stripped, IMAGE_TAG) THEN <<>>
     ELSE Strip(ListPrefixSub(CiteSub(stripped)))

\* the lines of a body that survive, normalized; a fence line toggles
\* in_code and is itself dropped
NormalizeLines(lines, keep_code) ==
  LET fence == AsTuple([i \in 1..Len(lines) |-> IsFence(lines[i])])
      InCode(i) == Cardinality({j \in 1..(i - 1) : fence[j]}) % 2 = 1
      norm == AsTuple([i \in 1..Len(lines) |->
                         IF fence[i] \/ (InCode(i) /\ ~keep_code) THEN <<>>
                         ELSE NormalizeLine(lines[i])])
      NonEmpty(l) == l # <<>>
  IN SelectSeq(norm, NonEmpty)

normalize_body(text, keep_code) ==
  JoinLines(NormalizeLines(SplitLines(text), keep_code))

\* extract_text(messages, keep_code): the non-empty normalized bodies, joined
ExtractChunks(messages, keep_code) ==
  LET bodies == AsTuple([i \in 1..Len(messages) |->
                           normalize_body(messages[i].body, keep_code)])
      NonEmpty(b) == b # <<>>
  IN SelectSeq(bodies, NonEmpty)

extract_text(messages, keep_code) == JoinLines(ExtractChunks(messages, keep_code))

\* ascii_ratio(text) >= 0.85, in hundredths
AsciiRatioAtLeast85(text) ==
  IF text = <<>> THEN TRUE
  ELSE 100 * Cardinality({i \in DOMAIN text : IsAscii(text[i])}) >= 85 * Max(1, Len(text))

\* the pattern class \w
IsWordCh(ch) == IsLetter(ch) \/ IsDigit(ch) \/ ch = "_" \/ IsCJK(ch)

\* the pattern anchor \b before position i of text
WordBoundary(text, i) ==
  LET before == i > 1 /\ i - 1 <= Len(text) /\ IsWordCh(text[i - 1])
      after == i >= 1 /\ i <= Len(text) /\ IsWordCh(text[i])
  IN before # after

FILE_EXTENSIONS ==
  { Str("ts"), Str("tsx"), Str("js"), Str("jsx"), Str("py"), Str("md"), Str("json"),
    Str("yml"), Str("yaml"), Str("css"), Str("html"), Str("go"), Str("rs"),
    Str("java"), Str("cpp"), Str("c"), Str("h") }

\* FILE_TOKEN_RE.search(s): \b[\w./-]+\.(ext)\b, ignoring case; p is the
\* position of the dot before the extension, a the start of the match
SearchFileToken(s) ==
  LET low == LowerStr(s)
      InPath(ch) == IsWordCh(ch) \/ ch \in {".", "/", "-"}
  IN \E p \in 2..Len(low) :
        /\ low[p] = "."
        /\ \E e \in FILE_EXTENSIONS :
              /\ p + Len(e) <= Len(low)
              /\ SubSeq(low, p + 1, p + Len(e)) = e
              /\ WordBoundary(low, p + Len(e) + 1)
        /\ \E a \in 1..(p - 1) :
              /\ WordBoundary(low, a)
              /\ \A j \in a..(p - 1) : InPath(low[j])

\* re.search(r"\+\d+", s)
SearchPlusDigits(s) ==
  \E i \in 1..(Len(s) - 1) : s[i] = "+" /\ IsDigit(s[i + 1])

LONG_ARTIFACT_LINE == 160

ARTIFACT_MARKERS ==
  { Str("node_modules"), Str("@babel/parser"), Str("<vite-error-overlay"),
    Str("plugin:vite") }

\* does strip_artifact_lines keep the stripped line s
KeepsLine(s) ==
  LET lower == LowerStr(s)
  IN /\ s # <<>>
     /\ \A m \in ARTIFACT_MARKERS : ~Contains(lower, m)
     /\ ~((SearchPlusDigits(s) \/ Contains(s, <<":">>)) /\ SearchFileToken(s))
     /\ ~(Len(s) >= LONG_ARTIFACT_LINE /\ AsciiRatioAtLeast85(s))

StripArtifactLines(lines) ==
  SelectSeq(AsTuple([i \in 1..Len(lines) |-> Strip(lines[i])]), KeepsLine)

strip_artifact_lines(text) == JoinLines(StripArtifactLines(SplitLines(text)))

\* clean_for_metrics(text)
clean_for_metrics(text) == Strip(strip_artifact_lines(normalize_body(text, FALSE)))

(***************************************************************************)
(* Terms: alias normalisation and the noise filters.                       *)
(***************************************************************************)
\* is_chinese_term(term)
is_chinese_term(term) == \E i \in DOMAIN term : IsCJK(term[i])

\* TERM_ALIASES.get(k)
AliasGet(k) ==
  With({p \in TERM_ALIASES : p[1] = k}, LAMBDA hits :
    IF hits = {} THEN <<>> ELSE (CHOOSE p \in hits : TRUE)[2])

\* all of term[from..Len(term)] are digits, and there are between lo and hi
DigitsTail(term, from, lo, hi) ==
  /\ Len(term) - from + 1 >= lo
  /\ Len(term) - from + 1 <= hi
  /\ \A j \in from..Len(term) : IsDigit(term[j])

TURN_KINDS ==
  { Str("search"), Str("news"), Str("view"), Str("file"), Str("calc"),
    Str("code"), Str("media") }

\* TURN_TOKEN_RE.match(lower): ^turn\d+(kind)\d+$
MatchTurnToken(lower) ==
  /\ StartsWith(lower, Str("turn"))
  /\ \E a \in 5..Len(lower) : \E k \in TURN_KINDS :
        /\ \A j \in 5..a : IsDigit(lower[j])
        /\ a + Len(k) < Len(lower)
        /\ SubSeq(lower, a + 1, a + Len(k)) = k
        /\ \A j \in (a + Len(k) + 1)..Len(lower) : IsDigit(lower[j])

\* SHORT_ID_RE.match(lower): ^[a-z]{1,2}\d{1,4}$
MatchShortId(lower) ==
  \E n \in 1..2 :
     /\ n < Len(lower)
     /\ \A j \in 1..n : IsLower(lower[j])
     /\ DigitsTail(lower, n + 1, 1, 4)

\* MIXED_ID_RE.match(lower): ^[a-z]{1,3}\d{3,}$
MatchMixedId(lower) ==
  \E n \in 1..3 :
     /\ n < Len(lower)
     /\ \A j \in 1..n : IsLower(lower[j])
     /\ DigitsTail(lower, n + 1, 3, Len(lower))

is_noise_term(term) ==
  LET lower == LowerStr(term)
  IN \/ term = <<>>
     \/ lower \in NOISE_TERMS
     \/ MatchTurnToken(lower)
     \/ MatchShortId(lower)
     \/ MatchMixedId(lower)

\* the result None of normalize_term
None == <<>>

\* a plausible slip: the alias table is not consulted
MapAlias_unmapped(t) == t

\* TERM_ALIASES.get(lower) or TERM_ALIASES.get(t) or t
MapAlias(t) ==
  With(AliasGet(LowerStr(t)), LAMBDA first :
    IF first # <<>> THEN first
    ELSE With(AliasGet(t), LAMBDA second : IF second # <<>> THEN second ELSE t))

\* the filters of normalize_term on the mapped term
FilterMapped(mapped, mapped_lower) ==
  IF is_noise_term(mapped) THEN None
  ELSE IF mapped_lower \in EN_STOPWORDS \/ mapped_lower \in NOISE_TERMS THEN None
  ELSE IF mapped \in ZH_STOPWORDS THEN None
  ELSE IF StartsWith(mapped_lower, Str("http")) THEN None
  ELSE IF \A i \in DOMAIN mapped_lower : IsDigit(mapped_lower[i]) THEN None
  ELSE IF /\ ~is_chinese_term(mapped)
          /\ \/ Len(mapped_lower) <= 2 /\ mapped_lower \notin SHORT_ALLOW
             \/ /\ \E i \in DOMAIN mapped_lower : IsDigit(mapped_lower[i])
                /\ Len(mapped_lower) <= 3
    THEN None
  ELSE mapped

\* normalize_term(term): the display form of the term, or None
normalize_term(term) ==
  With(Strip(term), LAMBDA t :
    IF t = <<>> THEN None
    ELSE With(MapAlias(t), LAMBDA mapped :
           With(LowerStr(mapped), LAMBDA mapped_lower : FilterMapped(mapped, mapped_lower))))

(***************************************************************************)
(* Vocabulary bootstrap and tokenizer.                                     *)
(***************************************************************************)
\* A Counter: the keys in insertion order and the count of each key.
EmptyCounter == [keys |-> <<>>, n |-> <<>>]

CounterGet(c, t) == IF t \in DOMAIN c.n THEN c.n[t] ELSE 0

\* Counter(terms)
CounterOf(terms) ==
  LET First(i) == \A j \in 1..(i - 1) : terms[j] # terms[i]
  IN [keys |-> AsTuple(Pick(terms, SelectSeq(Indices(Len(terms)), First))),
      n |-> [t \in Range(terms) |-> Cardinality({i \in DOMAIN terms : terms[i] = t})]]

\* counter.update(keys): one more for each key, new keys go to the end
CounterUpdate(c, keys) ==
  LET New(t) == t \notin DOMAIN c.n
  IN [keys |-> c.keys \o SelectSeq(keys, New),
      n |-> [t \in DOMAIN c.n \cup Range(keys) |->
               CounterGet(c, t) + Cardinality({i \in DOMAIN keys : keys[i] = t})]]

MAX_TEXT_CHARS_FOR_TERMS == 12000

MAX_ZH_RUN == 180

\* the matches of a pattern that takes, from each maximal run of the class
\* In, the part from the first position that satisfies First up to the end of
\* the run, if that part has at least MinLen characters
RunMatches(text, In(_), First(_), MinLen) ==
  LET RunStart(i) == In(text[i]) /\ (i = 1 \/ ~In(text[i - 1]))
      NotFirst(ch) == ~First(ch)
      \* <<from, to>> of the match in the run that starts at i, from > to if none
      Match(i) ==
        With(i + Span(text, i, In) - 1, LAMBDA end :
          With(i + Span(SubSeq(text, 1, end), i, NotFirst), LAMBDA from :
            IF end - from + 1 >= MinLen THEN <<from, end>> ELSE <<1, 0>>))
      matches == AsTuple([i \in 1..Len(text) |-> IF RunStart(i) THEN Match(i) ELSE <<1, 0>>])
      Found(m) == m[1] <= m[2]
  IN With(SelectSeq(matches, Found), LAMBDA found :
       [k \in 1..Len(found) |-> SubSeq(text, found[k][1], found[k][2])])

\* EN_RE.findall(text): [A-Za-z][A-Za-z0-9_]{1,}
EnFindAll(text) ==
  LET In(ch) == IsLetter(ch) \/ IsDigit(ch) \/ ch = "_"
  IN AsTuple(RunMatches(text, In, IsLetter, 2))

\* ZH_RE.findall(text): [一-鿿]{2,}
ZhFindAll(text) == AsTuple(RunMatches(text, IsCJK, IsCJK, 2))

\* iter_zh_ngrams(seq, 2, 4), in yield order: by length, then by position
NgramAt(seq, k) ==
  LET n2 == Max(0, Len(seq) - 1)
      n3 == Max(0, Len(seq) - 2)
  IN IF k <= n2 THEN SubSeq(seq, k, k + 1)
     ELSE IF k <= n2 + n3 THEN SubSeq(seq, k - n2, k - n2 + 2)
     ELSE SubSeq(seq, k - n2 - n3, k - n2 - n3 + 3)

iter_zh_ngrams(seq) ==
  [k \in 1..(Max(0, Len(seq) - 1) + Max(0, Len(seq) - 2) + Max(0, Len(seq) - 3)) |->
     NgramAt(seq, k)]

RECURSIVE Flatten(_)
Flatten(seqs) == IF seqs = <<>> THEN <<>> ELSE Head(seqs) \o Flatten(Tail(seqs))

\* the set seen of one text in build_zh_vocab, as the sequence of its terms
\* in the order in which they were added
SeenInAddOrder(text) ==
  LET Kept(g) == g \notin ZH_STOPWORDS /\ Cardinality(Range(g)) # 1
  IN With(ZhFindAll(text), LAMBDA runs :
       CounterOf(SelectSeq(
         Flatten([r \in DOMAIN runs |->
                    AsTuple(iter_zh_ngrams(SubSeq(runs[r], 1, Min(Len(runs[r]), MAX_ZH_RUN))))]),
         Kept)).keys)

\* the set seen of one text in build_zh_vocab
SeenNgrams(text) == Range(SeenInAddOrder(text))

MAX_DF_PERCENT == 35

SMALL_CORPUS_DOCS == 80

\* the Counter df of build_zh_vocab once "for term in seen: df[term] += 1"
\* has run for every text; orders[i] is the order in which the set seen of
\* text i was iterated, so no term occurs twice in it
ZhDf(orders) == CounterOf(Flatten(orders))

\* a plausible slip: the upper document-frequency gate is missing
VocabOfCounter_no_max(df, n) ==
  LET total == Max(1, n)
      min_df == IF total < SMALL_CORPUS_DOCS THEN 2 ELSE 3
  IN {df.keys[i] : i \in {j \in DOMAIN df.keys : df.n[df.keys[j]] >= min_df}}
       \cup DOMAIN_ZH_TERMS

\* a plausible slip: the vocabulary is cut to the first accepted n-gram of
\* df, in the order of df
VocabOfCounter_first(df, n) ==
  LET total == Max(1, n)
      min_df == IF total < SMALL_CORPUS_DOCS THEN 2 ELSE 3
      max_df == (total * MAX_DF_PERCENT) \div 100
      ok == {j \in DOMAIN df.keys :
               df.n[df.keys[j]] >= min_df /\ df.n[df.keys[j]] <= max_df}
  IN {df.keys[i] : i \in {j \in ok : \A k \in ok : j <= k}} \cup DOMAIN_ZH_TERMS

\* the vocabulary from the Counter df of n texts; int(total * 0.35) is
\* (35 * total) \div 100 for every total below 180
VocabOfCounter(df, n) ==
  LET total == Max(1, n)
      min_df == IF total < SMALL_CORPUS_DOCS THEN 2 ELSE 3
      max_df == (total * MAX_DF_PERCENT) \div 100
  IN {df.keys[i] : i \in {j \in DOMAIN df.keys :
                            df.n[df.keys[j]] >= min_df /\ df.n[df.keys[j]] <= max_df}}
       \cup DOMAIN_ZH_TERMS

\* build_zh_vocab(texts) with the default min_df and max_df_ratio; each set
\* seen is iterated in the order in which it was filled, SpecRuns takes
\* every order
build_zh_vocab(texts) ==
  VocabOfCounter(ZhDf(AsTuple([i \in 1..Len(texts) |-> SeenInAddOrder(texts[i])])),
                 Len(texts))

\* segment_zh(seq, vocab) from position i on: longest match first
\* a plausible slip: the lengths are tried from the shortest
RECURSIVE SegmentFrom_shortest(_, _, _)
SegmentFrom_shortest(seq, vocab, i) ==
  IF i > Len(seq) THEN <<>>
  ELSE LET Cand(n) == SubSeq(seq, i, i + n - 1)
           Hit(n) == /\ i + n <= Len(seq) + 1
                     /\ Cand(n) \in vocab
                     /\ Cand(n) \notin ZH_STOPWORDS
           n == IF Hit(2) THEN 2 ELSE IF Hit(3) THEN 3 ELSE IF Hit(4) THEN 4 ELSE 0
       IN IF n > 0 THEN <<Cand(n)>> \o SegmentFrom_shortest(seq, vocab, i + n)
          ELSE SegmentFrom_shortest(seq, vocab, i + 1)

RECURSIVE SegmentFrom(_, _, _)
SegmentFrom(seq, vocab, i) ==
  IF i > Len(seq) THEN <<>>
  ELSE LET Cand(n) == SubSeq(seq, i, i + n - 1)
           Hit(n) == /\ i + n <= Len(seq) + 1
                     /\ Cand(n) \in vocab
                     /\ Cand(n) \notin ZH_STOPWORDS
           n == IF Hit(4) THEN 4 ELSE IF Hit(3) THEN 3 ELSE IF Hit(2) THEN 2 ELSE 0
       IN IF n > 0 THEN <<Cand(n)>> \o SegmentFrom(seq, vocab, i + n)
          ELSE SegmentFrom(seq, vocab, i + 1)

segment_zh(seq, vocab) == SegmentFrom(seq, vocab, 1)

\* [normalize_term(t) for t in terms], without the None results
NormalizeAll(terms) ==
  LET Kept(t) == t # None
  IN SelectSeq(AsTuple([i \in DOMAIN terms |-> normalize_term(terms[i])]), Kept)

\* the terms the loop over the Chinese runs hands to normalize_term
ZhTerms(limited, zh_vocab) ==
  LET NotStop(seq) == seq \notin ZH_STOPWORDS
  IN With(SelectSeq(ZhFindAll(limited), NotStop), LAMBDA runs :
       Flatten([r \in DOMAIN runs |->
                  IF zh_vocab = {} THEN AsTuple(iter_zh_ngrams(runs[r]))
                  ELSE segment_zh(runs[r], zh_vocab)]))

\* tokenize_v2(text, zh_vocab): the normalized terms of the English words,
\* then those of the Chinese runs
tokenize_v2(text, zh_vocab) ==
  IF text = <<>> THEN <<>>
  ELSE With(SubSeq(text, 1, Min(Len(text), MAX_TEXT_CHARS_FOR_TERMS)), LAMBDA limited :
         NormalizeAll(EnFindAll(limited) \o ZhTerms(limited, zh_vocab)))

(***************************************************************************)
(* Term statistics, TF-IDF keywords and the topic label.                   *)
(***************************************************************************)
\* math.log(n) in units of 1/10000 for n = 1..16.  The entries are sums over
\* the prime factors of n, so that products that are equal as reals stay
\* equal; for tf <= 12 and at most 8 documents the weights below order as
\* the floating point weights of the program do.
LN_1E4 ==
  << 0, 6931, 10986, 13862, 16094, 17917, 19459, 20793,
     21972, 23025, 23979, 24848, 25649, 26390, 27080, 27724 >>

ONE_1E4 == 10000

\* math.log((total_docs + 1) / (df + 1)) + 1.0
Idf(total, df) == LN_1E4[total + 1] - LN_1E4[df + 1] + ONE_1E4

\* a plausible slip: the quotient is inverted
IdfTableInverted(df_counter, total) ==
  [t \in DOMAIN df_counter.n |-> LN_1E4[df_counter.n[t] + 1] - LN_1E4[total + 1] + ONE_1E4]

\* the dict idf of build_index
IdfTable(df_counter, total) ==
  [t \in DOMAIN df_counter.n |-> Idf(total, df_counter.n[t])]

CODE_SUFFIXES ==
  { Str("Service"), Str("Panel"), Str("Dashboard"), Str("Interface"),
    Str("Provider"), Str("Controller"), Str("Manager") }

MIN_KEYWORD_DF == 2

MAX_KEYWORD_DF_PERCENT == 60

\* a plausible slip: the document-frequency gates are missing
is_good_keyword_any_df(term, doc_freq, total_docs) ==
  LET lower == LowerStr(term)
  IN /\ term # <<>>
     /\ lower \notin KEYWORD_BLACKLIST
     /\ ~is_noise_term(term)
     /\ term \notin ZH_STOPWORDS
     /\ lower \notin EN_STOPWORDS
     /\ lower \notin NOISE_TERMS

\* is_good_keyword(term, doc_freq, total_docs); int(total_docs * 0.6) is
\* (60 * total_docs) \div 100 for every total_docs below 5000
is_good_keyword(term, doc_freq, total_docs) ==
  LET lower == LowerStr(term)
      df == CounterGet(doc_freq, term)
  IN /\ term # <<>>
     /\ lower \notin KEYWORD_BLACKLIST
     /\ ~is_noise_term(term)
     /\ term \notin ZH_STOPWORDS
     /\ lower \notin EN_STOPWORDS
     /\ lower \notin NOISE_TERMS
     /\ df >= MIN_KEYWORD_DF
     /\ df <= (total_docs * MAX_KEYWORD_DF_PERCENT) \div 100
     /\ ~(~is_chinese_term(term) /\ Len(lower) <= 2 /\ lower \notin SHORT_ALLOW)
     /\ (\A i \in DOMAIN term : IsAscii(term[i])) =>
           /\ ~(("_" \in Range(term)) /\ Len(term) >= 6)
           /\ ~(IsLower(term[1]) /\ \E i \in 2..Len(term) : IsUpper(term[i]))
           /\ \A s \in CODE_SUFFIXES : ~EndsWith(term, s)

KEYWORD_LIMIT == 8

\* (1.0 + math.log(tf)) * idf.get(term, 1.0), in units of 1e-8
Weight(tf, term, idf) ==
  (ONE_1E4 + LN_1E4[tf]) * (IF term \in DOMAIN idf THEN idf[term] ELSE ONE_1E4)

\* the terms cand ordered by (-weight, -tf, term), cut to the first lim
RankedTerms(cand, term_counts, idf, lim) ==
  LET Before(a, b) ==
        LET wa == Weight(term_counts.n[a], a, idf)
            wb == Weight(term_counts.n[b], b, idf)
        IN \/ wa > wb
           \/ wa = wb /\ term_counts.n[a] > term_counts.n[b]
           \/ wa = wb /\ term_counts.n[a] = term_counts.n[b] /\ StrLess(a, b)
      RankOf(t) == 1 + Cardinality({u \in cand : Before(u, t)})
  IN [k \in 1..Min(lim, Cardinality(cand)) |-> CHOOSE t \in cand : RankOf(t) = k]

\* a plausible slip: the list is not cut to the limit
tfidf_keywords_uncut(term_counts, idf, doc_freq, total_docs) ==
  LET cand == {t \in DOMAIN term_counts.n :
                 is_good_keyword(t, doc_freq, total_docs) /\ term_counts.n[t] > 0}
  IN AsTuple(RankedTerms(cand, term_counts, idf, Cardinality(cand)))

\* tfidf_keywords(term_counts, idf, doc_freq, total_docs, limit=8)
tfidf_keywords(term_counts, idf, doc_freq, total_docs) ==
  LET cand == {t \in DOMAIN term_counts.n :
                 is_good_keyword(t, doc_freq, total_docs) /\ term_counts.n[t] > 0}
  IN AsTuple(RankedTerms(cand, term_counts, idf, KEYWORD_LIMIT))

MIN_RULE_SCORE == 2

FALLBACK_LABEL == <<"u5176","u4ed6">>   \* 其他

\* the count of each lower-cased term of the document
LowerCount(term_counts, low) ==
  LET same == {t \in DOMAIN term_counts.n : LowerStr(t) = low}
      RECURSIVE Sum(_)
      Sum(s) == IF s = {} THEN 0
                ELSE LET t == CHOOSE t \in s : TRUE
                     IN term_counts.n[t] + Sum(s \ {t})
  IN Sum(same)

\* the score of rule r: the sum over its triggers trig of
\* lower_counts.get(trig.lower(), 0)
RuleScore(term_counts, r) ==
  LET hits == {trig \in TOPIC_RULES[r].triggers : LowerCount(term_counts, LowerStr(trig)) > 0}
      RECURSIVE Sum(_)
      Sum(s) == IF s = {} THEN 0
                ELSE LET trig == CHOOSE trig \in s : TRUE
                     IN LowerCount(term_counts, LowerStr(trig)) + Sum(s \ {trig})
  IN Sum(hits)

\* a plausible slip: a rule takes over on an equal score, so the last of
\* the rules with the highest score holds it
BestRule_last(term_counts) ==
  With(AsTuple([r \in DOMAIN TOPIC_RULES |-> RuleScore(term_counts, r)]), LAMBDA score :
  With({r \in DOMAIN score :
          /\ score[r] > 0
          /\ \A q \in DOMAIN score : score[q] <= score[r]
          /\ \A q \in (r + 1)..Len(score) : score[q] < score[r]}, LAMBDA best :
    IF best = {} THEN [rule |-> 0, score |-> 0, label |-> <<>>]
    ELSE With(CHOOSE r \in best : TRUE, LAMBDA r :
           [rule |-> r, score |-> score[r], label |-> TOPIC_RULES[r].label])))

\* the rule that holds the best score after the scan: the first with the
\* highest score, 0 if no rule scores
BestRule(term_counts) ==
  With(AsTuple([r \in DOMAIN TOPIC_RULES |-> RuleScore(term_counts, r)]), LAMBDA score :
  With({r \in DOMAIN score :
          /\ score[r] > 0
          /\ \A q \in DOMAIN score : score[q] <= score[r]
          /\ \A q \in 1..(r - 1) : score[q] < score[r]}, LAMBDA best :
    IF best = {} THEN [rule |-> 0, score |-> 0, label |-> <<>>]
    ELSE With(CHOOSE r \in best : TRUE, LAMBDA r :
           [rule |-> r, score |-> score[r], label |-> TOPIC_RULES[r].label])))

\* min_fallback_df; int(total_docs * 0.005) is (5 * total_docs) \div 1000
SMALL_TOPIC_CORPUS == 100

MinFallbackDf(total_docs) ==
  IF total_docs < SMALL_TOPIC_CORPUS THEN 3 ELSE Max(8, (total_docs * 5) \div 1000)

\* the first keyword that may serve as the topic, in list order
FallbackTopic(fallback_keywords, doc_freq, total_docs) ==
  LET Ok(kw) == /\ kw # <<>>
                /\ LowerStr(kw) \notin KEYWORD_BLACKLIST
                /\ is_good_keyword(kw, doc_freq, total_docs)
                /\ CounterGet(doc_freq, kw) >= MinFallbackDf(total_docs)
      ok == SelectSeq(fallback_keywords, Ok)
  IN IF ok = <<>> THEN FALLBACK_LABEL ELSE ok[1]

\* a plausible slip: the fallback takes the most frequent term of the corpus
assign_topic_label_corpus_term(term_counts, fallback_keywords, doc_freq, total_docs) ==
  With(BestRule(term_counts), LAMBDA best :
    IF best.rule # 0 /\ best.score >= MIN_RULE_SCORE THEN best.label
    ELSE FallbackTopic(doc_freq.keys, doc_freq, total_docs))

\* assign_topic_label(term_counts, fallback_keywords, doc_freq, total_docs)
assign_topic_label(term_counts, fallback_keywords, doc_freq, total_docs) ==
  With(BestRule(term_counts), LAMBDA best :
    IF best.rule # 0 /\ best.score >= MIN_RULE_SCORE THEN best.label
    ELSE FallbackTopic(fallback_keywords, doc_freq, total_docs))

(***************************************************************************)
(* Interaction signals of one user message.                                *)
(***************************************************************************)
\* re.sub(r"\s+", " ", text).strip(): every whitespace run becomes one space,
\* and the run at either end is dropped
CompactWith(text, idx) ==
  [k \in 1..Len(idx) |-> IF IsSpace(text[idx[k]]) THEN " " ELSE text[idx[k]]]

Compact(text) ==
  LET Keep(i) ==
        \/ ~IsSpace(text[i])
        \/ /\ i > 1
           /\ ~IsSpace(text[i - 1])
           /\ \E j \in (i + 1)..Len(text) : ~IsSpace(text[j])
  IN AsTuple(CompactWith(text, SelectSeq(Indices(Len(text)), Keep)))

\* len(compact.replace(" ", ""))
CharLen(compact) == Cardinality({i \in DOMAIN compact : compact[i] # " "})

\* len(re.findall(r"[A-Za-z0-9']+", compact)): the maximal runs
WordLen(compact) ==
  LET W(i) == IsLetter(compact[i]) \/ IsDigit(compact[i]) \/ compact[i] = "'"
  IN Cardinality({i \in DOMAIN compact : W(i) /\ (i = 1 \/ ~W(i - 1))})

\* pattern.search(text) for an IGNORECASE pattern that is a list of literals
SearchAlts(alts, text) ==
  LET low == LowerStr(text)
  IN \E a \in alts : Contains(low, LowerStr(a))

\* UNIT_RE.search: \d+\s?(unit), ignoring case
SearchUnit(text) ==
  LET low == LowerStr(text)
      UnitAt(j) == \E u \in UNIT_RE_UNITS :
                      j + Len(u) - 1 <= Len(low) /\ SubSeq(low, j, j + Len(u) - 1) = u
  IN \E i \in DOMAIN low :
        /\ IsDigit(low[i])
        /\ \/ UnitAt(i + 1)
           \/ i + 1 <= Len(low) /\ IsSpace(low[i + 1]) /\ UnitAt(i + 2)

\* STRUCTURE_RE.search on one line: ^\s*(?:[-*•]|\d+[\\.、)])
STRUCTURE_BULLETS == {"-", "*", "u2022"}

STRUCTURE_NUMBER_ENDS == {"\\", ".", "u3001", ")"}

StructureAtLineStart(line) ==
  \E s \in 1..Len(line) :
     /\ \A j \in 1..(s - 1) : IsSpace(line[j])
     /\ \/ line[s] \in STRUCTURE_BULLETS
        \/ \E e \in (s + 1)..Len(line) :
              /\ \A j \in s..(e - 1) : IsDigit(line[j])
              /\ line[e] \in STRUCTURE_NUMBER_ENDS

\* with re.MULTILINE ^ also matches after each newline
SearchStructure(text) ==
  \/ StructureAtLineStart(text)
  \/ \E i \in DOMAIN text :
        text[i] = "\n" /\ StructureAtLineStart(SubSeq(text, i + 1, Len(text)))

\* a plausible slip: the length test of vague is the wrong way round
analyze_user_message_long_vague(text) ==
  LET compact == Compact(text)
      char_len == CharLen(compact)
      word_len == WordLen(compact)
      has_question == \E i \in DOMAIN compact : compact[i] \in {"?", "uff1f"}
      has_request == SearchAlts(REQUEST_RE_ALTS, compact)
      has_structure == SearchStructure(compact)
      has_numbers == \E i \in DOMAIN compact : IsDigit(compact[i])
      has_constraints == SearchAlts(CONSTRAINT_RE_ALTS, compact) \/ SearchUnit(compact)
      has_context == SearchAlts(CONTEXT_RE_ALTS, compact) \/ char_len >= 35
      has_feedback == SearchAlts(FEEDBACK_RE_ALTS, compact)
  IN [text |-> compact,
      char_len |-> char_len,
      clear |-> (has_question \/ has_request \/ has_structure
                 \/ char_len >= 18 \/ word_len >= 6),
      constraint |-> (has_constraints \/ (has_numbers /\ char_len >= 12)),
      context |-> has_context,
      feedback |-> has_feedback,
      vague |-> (char_len >= 12 /\ ~has_question /\ ~has_constraints /\ ~has_context)]

analyze_user_message(text) ==
  LET compact == Compact(text)
      char_len == CharLen(compact)
      word_len == WordLen(compact)
      has_question == \E i \in DOMAIN compact : compact[i] \in {"?", "uff1f"}
      has_request == SearchAlts(REQUEST_RE_ALTS, compact)
      has_structure == SearchStructure(compact)
      has_numbers == \E i \in DOMAIN compact : IsDigit(compact[i])
      has_constraints == SearchAlts(CONSTRAINT_RE_ALTS, compact) \/ SearchUnit(compact)
      has_context == SearchAlts(CONTEXT_RE_ALTS, compact) \/ char_len >= 35
      has_feedback == SearchAlts(FEEDBACK_RE_ALTS, compact)
  IN [text |-> compact,
      char_len |-> char_len,
      clear |-> (has_question \/ has_request \/ has_structure
                 \/ char_len >= 18 \/ word_len >= 6),
      constraint |-> (has_constraints \/ (has_numbers /\ char_len >= 12)),
      context |-> has_context,
      feedback |-> has_feedback,
      vague |-> (char_len < 12 /\ ~has_question /\ ~has_constraints /\ ~has_context)]

(***************************************************************************)
(* Quote pools.                                                            *)
(***************************************************************************)
SIGNAL_QUOTE_LIMIT == 60

BOUNDARY_QUOTE_LIMIT == 40

\* the sort key (-score, text): a comes strictly before b
QuoteBefore(a, b) ==
  \/ a.score > b.score
  \/ a.score = b.score /\ StrLess(a.text, b.text)

\* bucket.sort(key=lambda item: (-item.get("score", 0), item.get("text", ""))).
\* list.sort is stable: an entry moves behind the entries that sort before it
\* and behind the earlier entries with an equal key.
OrderByRank(b, rank) == [p \in 1..Len(b) |-> b[CHOOSE i \in DOMAIN b : rank[i] = p]]

SortQuotes(b) ==
  OrderByRank(b, [i \in DOMAIN b |->
                    1 + Cardinality({j \in DOMAIN b :
                          \/ QuoteBefore(b[j], b[i])
                          \/ j < i /\ ~QuoteBefore(b[i], b[j])})] \o <<>>)

\* a plausible slip: truncate without sorting first
push_quote_unsorted(b, quote, lim) ==
  IF Len(b) + 1 <= lim THEN Append(b, quote)
  ELSE SubSeq(Append(b, quote), 1, lim)

\* a plausible slip: the sort key without the minus sign, lowest score first
push_quote_ascending(b, quote, lim) ==
  IF Len(b) + 1 <= lim THEN Append(b, quote)
  ELSE LET sorted == SortQuotes(Append(b, quote))
       IN SubSeq([i \in 1..Len(sorted) |-> sorted[Len(sorted) + 1 - i]], 1, lim)

push_quote(b, quote, lim) ==
  IF Len(b) + 1 <= lim THEN Append(b, quote)
  ELSE SubSeq(SortQuotes(Append(b, quote)), 1, lim)

(***************************************************************************)
(* The interaction record of one conversation.                             *)
(***************************************************************************)
\* base_role(role_label): up to the first space or colon, lower case
base_role(role_label) ==
  LET stop == {i \in DOMAIN role_label : role_label[i] \in {" ", ":"}}
      n == IF stop = {} THEN Len(role_label)
           ELSE (CHOOSE i \in stop : \A j \in stop : i <= j) - 1
  IN LowerStr(Strip(SubSeq(role_label, 1, n)))

\* json.loads(payload) is a dict that holds one of TOOL_JSON_KEYS, for the
\* flat one-line objects {"key": value, ...}
JsonDictWithToolKey(payload) ==
  /\ StartsWith(payload, <<"{">>)
  /\ EndsWith(payload, <<"}">>)
  /\ \E key \in TOOL_JSON_KEYS : Contains(payload, <<"\"">> \o key \o <<"\"", ":">>)

\* a plausible slip: only a fenced payload is taken for a tool call
is_tool_call_block_fenced_only(text) ==
  LET stripped == Strip(text)
      lines == SplitLines(stripped)
      lang == LowerStr(Strip(SubSeq(Strip(lines[1]), 4, Len(Strip(lines[1])))))
      inner == Strip(JoinLines(SubSeq(lines, 2, Len(lines) - 1)))
  IN /\ stripped # <<>>
     /\ StartsWith(stripped, CODE_FENCE)
     /\ lang \in {<<>>, Str("unknown")}
     /\ Len(lines) >= 2
     /\ StartsWith(Strip(lines[Len(lines)]), CODE_FENCE)
     /\ inner # <<>>
     /\ JsonDictWithToolKey(inner)

\* is_tool_call_block(text)
is_tool_call_block(text) ==
  LET stripped == Strip(text)
      lines == SplitLines(stripped)
      lang == LowerStr(Strip(SubSeq(Strip(lines[1]), 4, Len(Strip(lines[1])))))
      inner == Strip(JoinLines(SubSeq(lines, 2, Len(lines) - 1)))
  IN IF stripped = <<>> THEN FALSE
     ELSE IF ~StartsWith(stripped, CODE_FENCE) THEN JsonDictWithToolKey(stripped)
     ELSE /\ lang \in {<<>>, Str("unknown")}
          /\ Len(lines) >= 2
          /\ StartsWith(Strip(lines[Len(lines)]), CODE_FENCE)
          /\ inner # <<>>
          /\ JsonDictWithToolKey(inner)

QUOTE_TEXT_LIMIT == 180

\* str.rstrip()
RStrip(text) ==
  LET ns == {i \in DOMAIN text : ~IsSpace(text[i])}
  IN IF ns = {} THEN <<>>
     ELSE SubSeq(text, 1, CHOOSE i \in ns : \A j \in (i + 1)..Len(text) : IsSpace(text[j]))

\* truncate_text(text, limit=180)
truncate_text(text) ==
  IF Len(text) <= QUOTE_TEXT_LIMIT THEN text
  ELSE RStrip(SubSeq(text, 1, QUOTE_TEXT_LIMIT - 1)) \o <<"u2026">>

\* the first loop of analyze_conversation: the role and the cleaned body of
\* every message that is no tool call and is not empty once cleaned
CleanedMessages(messages) ==
  LET Cleaned(m) == [role |-> base_role(m.role),
                     tool |-> is_tool_call_block(m.body),
                     text |-> clean_for_metrics(m.body)]
      Keep(c) == ~c.tool /\ c.text # <<>>
  IN SelectSeq(AsTuple([i \in DOMAIN messages |-> Cleaned(messages[i])]), Keep)

\* the cleaned bodies of one role, in order
MsgsOfRole(cleaned, role) ==
  LET Keep(c) == c.role = role
      kept == SelectSeq(cleaned, Keep)
  IN AsTuple([k \in DOMAIN kept |-> kept[k].text])

ZeroTotals ==
  [conversations |-> 0, user_messages |-> 0, assistant_messages |-> 0,
   clarity_hits |-> 0, constraint_hits |-> 0, context_hits |-> 0,
   feedback_hits |-> 0, clarify_hits |-> 0, iteration_conversations |-> 0,
   user_chars |-> 0, assistant_chars |-> 0]

SIGNALS == <<"clarity", "constraint", "context", "feedback", "vague">>

EmptyBuckets == [s \in Range(SIGNALS) |-> <<>>]

\* len(text.replace(" ", "")) summed over the texts
RECURSIVE SumChars(_)
SumChars(texts) ==
  IF texts = <<>> THEN 0 ELSE CharLen(Head(texts)) + SumChars(Tail(texts))

\* the loop over assistant_msgs: clarify hits and boundary quotes
RECURSIVE AssistantLoop(_, _, _)
AssistantLoop(texts, file_path, st) ==
  IF texts = <<>> THEN st
  ELSE LET text == Head(texts)
           quote == [text |-> truncate_text(text), file |-> file_path, score |-> Len(text)]
       IN AssistantLoop(Tail(texts), file_path,
            [clarify |-> st.clarify + (IF SearchAlts(CLARIFY_RE_ALTS, text) THEN 1 ELSE 0),
             boundary |-> IF SearchAlts(BOUNDARY_RE_ALTS, text)
                          THEN push_quote(st.boundary, quote, BOUNDARY_QUOTE_LIMIT)
                          ELSE st.boundary])

\* whether the metrics raise signal s
Raises(m, s) ==
  CASE s = "clarity" -> m.clear
    [] s = "constraint" -> m.constraint
    [] s = "context" -> m.context
    [] s = "feedback" -> m.feedback
    [] s = "vague" -> m.vague

\* the loop over user_msgs: the hits of each signal and the signal quotes
RECURSIVE UserLoop(_, _, _)
UserLoop(texts, file_path, st) ==
  IF texts = <<>> THEN st
  ELSE With(analyze_user_message(Head(texts)), LAMBDA m :
         UserLoop(Tail(texts), file_path,
           [hits |-> [s \in Range(SIGNALS) |-> st.hits[s] + (IF Raises(m, s) THEN 1 ELSE 0)],
            buckets |-> [s \in Range(SIGNALS) |->
                           IF Raises(m, s)
                           THEN push_quote(st.buckets[s],
                                  [text |-> truncate_text(m.text), file |-> file_path,
                                   score |-> IF s = "vague" THEN 100 - m.char_len
                                             ELSE m.char_len],
                                  SIGNAL_QUOTE_LIMIT)
                           ELSE st.buckets[s]]]))

\* a plausible slip: a signal counts once for the conversation, however many
\* of its messages raise it
ConversationResult_once(user_msgs, assistant_msgs, a, u, file_path, created_utc, totals) ==
  LET Once(n) == IF n > 0 THEN 1 ELSE 0
  IN [record |->
        [file |-> file_path, created_utc |-> created_utc,
         user_messages |-> Len(user_msgs),
         assistant_messages |-> Len(assistant_msgs),
         clear_hits |-> u.hits["clarity"],
         constraint_hits |-> u.hits["constraint"],
         context_hits |-> u.hits["context"],
         feedback_hits |-> u.hits["feedback"],
         iteration |-> IF Len(user_msgs) >= 2 THEN 1 ELSE 0],
      totals |->
        [conversations |-> totals.conversations + 1,
         user_messages |-> totals.user_messages + Len(user_msgs),
         assistant_messages |-> totals.assistant_messages + Len(assistant_msgs),
         clarity_hits |-> totals.clarity_hits + Once(u.hits["clarity"]),
         constraint_hits |-> totals.constraint_hits + Once(u.hits["constraint"]),
         context_hits |-> totals.context_hits + Once(u.hits["context"]),
         feedback_hits |-> totals.feedback_hits + Once(u.hits["feedback"]),
         clarify_hits |-> totals.clarify_hits + a.clarify,
         iteration_conversations |->
           totals.iteration_conversations + (IF Len(user_msgs) >= 2 THEN 1 ELSE 0),
         user_chars |-> totals.user_chars + SumChars(user_msgs),
         assistant_chars |-> totals.assistant_chars + SumChars(assistant_msgs)],
      quote_buckets |-> u.buckets,
      boundary_quotes |-> a.boundary]

\* the record and the totals once the loops are done
ConversationResult(user_msgs, assistant_msgs, a, u, file_path, created_utc, totals) ==
  [record |->
     [file |-> file_path, created_utc |-> created_utc,
      user_messages |-> Len(user_msgs),
      assistant_messages |-> Len(assistant_msgs),
      clear_hits |-> u.hits["clarity"],
      constraint_hits |-> u.hits["constraint"],
      context_hits |-> u.hits["context"],
      feedback_hits |-> u.hits["feedback"],
      iteration |-> IF Len(user_msgs) >= 2 THEN 1 ELSE 0],
   totals |->
     [conversations |-> totals.conversations + 1,
      user_messages |-> totals.user_messages + Len(user_msgs),
      assistant_messages |-> totals.assistant_messages + Len(assistant_msgs),
      clarity_hits |-> totals.clarity_hits + u.hits["clarity"],
      constraint_hits |-> totals.constraint_hits + u.hits["constraint"],
      context_hits |-> totals.context_hits + u.hits["context"],
      feedback_hits |-> totals.feedback_hits + u.hits["feedback"],
      clarify_hits |-> totals.clarify_hits + a.clarify,
      iteration_conversations |->
        totals.iteration_conversations + (IF Len(user_msgs) >= 2 THEN 1 ELSE 0),
      user_chars |-> totals.user_chars + SumChars(user_msgs),
      assistant_chars |-> totals.assistant_chars + SumChars(assistant_msgs)],
   quote_buckets |-> u.buckets,
   boundary_quotes |-> a.boundary]

\* a plausible slip: the conversation is counted before the check for
\* messages, so one without messages still adds to the totals
analyze_conversation_counts_first(messages, file_path, created_utc, totals, buckets, boundary) ==
  With(CleanedMessages(messages), LAMBDA cleaned :
  With(<<MsgsOfRole(cleaned, Str("user")), MsgsOfRole(cleaned, Str("assistant"))>>, LAMBDA msgs :
    IF msgs[1] = <<>> /\ msgs[2] = <<>>
    THEN [record |-> None,
          totals |-> [totals EXCEPT !.conversations = @ + 1],
          quote_buckets |-> buckets, boundary_quotes |-> boundary]
    ELSE With(AssistantLoop(msgs[2], file_path, [clarify |-> 0, boundary |-> boundary]),
              LAMBDA a :
         With(UserLoop(msgs[1], file_path,
                       [hits |-> [s \in Range(SIGNALS) |-> 0], buckets |-> buckets]),
              LAMBDA u :
           ConversationResult(msgs[1], msgs[2], a, u, file_path, created_utc, totals)))))

\* analyze_conversation(messages, file_path, created_utc, totals,
\* quote_buckets, boundary_quotes): the record returned (None if there is no
\* message left) and the three arguments as the call leaves them.  The rates
\* of the record are kept as their numerators, the hits; their denominator
\* is max(1, user_messages).
analyze_conversation(messages, file_path, created_utc, totals, buckets, boundary) ==
  With(CleanedMessages(messages), LAMBDA cleaned :
  With(<<MsgsOfRole(cleaned, Str("user")), MsgsOfRole(cleaned, Str("assistant"))>>, LAMBDA msgs :
    IF msgs[1] = <<>> /\ msgs[2] = <<>>
    THEN [record |-> None, totals |-> totals, quote_buckets |-> buckets,
          boundary_quotes |-> boundary]
    ELSE With(AssistantLoop(msgs[2], file_path, [clarify |-> 0, boundary |-> boundary]),
              LAMBDA a :
         With(UserLoop(msgs[1], file_path,
                       [hits |-> [s \in Range(SIGNALS) |-> 0], buckets |-> buckets]),
              LAMBDA u :
           ConversationResult(msgs[1], msgs[2], a, u, file_path, created_utc, totals)))))

(***************************************************************************)
(* The interaction report.  A rate is a fraction [n, d] with d > 0; the    *)
(* program holds it as a float.  A reported number is rounded to 3 places  *)
(* and is kept in thousandths.                                             *)
(***************************************************************************)
RECURSIVE GCD(_, _)
GCD(a, b) == IF b = 0 THEN a ELSE GCD(b, a % b)

Abs(a) == IF a < 0 THEN -a ELSE a

\* the fraction n / d in lowest terms, d > 0
Frac(n, d) ==
  LET g == GCD(Abs(n), d) IN [n |-> n \div g, d |-> d \div g]

FracAdd(a, b) == Frac(a.n * b.d + b.n * a.d, a.d * b.d)

FracSub(a, b) == Frac(a.n * b.d - b.n * a.d, a.d * b.d)

\* a >= p / q, for q > 0
FracAtLeast(a, p, q) == a.n * q >= p * a.d

\* round(a, 3), in thousandths: the nearest thousandth, the even one of two
\* that are equally near
Round3(a) ==
  LET q == (1000 * a.n) \div a.d
      rest == 1000 * a.n - q * a.d
  IN IF 2 * rest < a.d THEN q
     ELSE IF 2 * rest > a.d THEN q + 1
     ELSE IF q % 2 = 0 THEN q ELSE q + 1

\* a stable sort: s[i] comes before s[j] if Before(s[i], s[j]), or if
\* neither is before the other and i < j
StableSort(s, Before(_, _)) ==
  OrderByRank(s, [i \in DOMAIN s |->
                    1 + Cardinality({j \in DOMAIN s :
                          \/ Before(s[j], s[i])
                          \/ j < i /\ ~Before(s[i], s[j])})] \o <<>>)

\* the number written in the digits text[from..to]
RECURSIVE DigitsValue(_, _, _)
DigitsValue(text, from, to) ==
  IF to < from THEN 0
  ELSE 10 * DigitsValue(text, from, to - 1) + (IndexOf(DIGITS, text[to]) - 1)

DATE_PATTERN == Str("dddd-dd-dd dd:dd:ddZ")

DaysIn(year, month) ==
  IF month \in {4, 6, 9, 11} THEN 30
  ELSE IF month # 2 THEN 31
  ELSE IF year % 4 = 0 /\ (year % 100 # 0 \/ year % 400 = 0) THEN 29 ELSE 28

\* parse_datetime(value): None, or <<year, month, day, hour, minute, second>>
\* for a value of the form "%Y-%m-%d %H:%M:%SZ" with every field at its full
\* width
parse_datetime(value) ==
  IF value = <<>> \/ value = Str("unknown") THEN None
  ELSE IF ~(/\ Len(value) = Len(DATE_PATTERN)
            /\ \A i \in DOMAIN value :
                  IF DATE_PATTERN[i] = "d" THEN IsDigit(value[i])
                  ELSE value[i] = DATE_PATTERN[i])
  THEN None
  ELSE LET dt == << DigitsValue(value, 1, 4), DigitsValue(value, 6, 7),
                    DigitsValue(value, 9, 10), DigitsValue(value, 12, 13),
                    DigitsValue(value, 15, 16), DigitsValue(value, 18, 19) >>
       IN IF /\ dt[1] >= 1
             /\ dt[2] \in 1..12
             /\ dt[3] \in 1..DaysIn(dt[1], dt[2])
             /\ dt[4] <= 23 /\ dt[5] <= 59 /\ dt[6] <= 59
          THEN dt ELSE None

\* dt1 < dt2
DateBefore(a, b) ==
  \E k \in 1..6 : a[k] < b[k] /\ \A j \in 1..(k - 1) : a[j] = b[j]

\* a plausible slip: the sum is divided by the number of rates, 4
ScoreOf_by_four(record) ==
  LET user_count == Max(1, record.user_messages)
  IN Frac(record.clear_hits + record.constraint_hits + record.context_hits
            + record.feedback_hits + record.iteration * user_count,
          4 * user_count)

\* record["score"]: the mean of the four rates and the iteration flag
ScoreOf(record) ==
  LET user_count == Max(1, record.user_messages)
  IN Frac(record.clear_hits + record.constraint_hits + record.context_hits
            + record.feedback_hits + record.iteration * user_count,
          5 * user_count)

\* the first loop of compute_cluster_trends: cluster, date and score of
\* every item that has a record and a date, in the order of the items
ClusterPoints(items, interaction_records) ==
  LET Dated(i) == /\ items[i].file \in DOMAIN interaction_records
                  /\ parse_datetime(items[i].created_utc) # None
      kept == SelectSeq(Indices(Len(items)), Dated)
  IN AsTuple([k \in DOMAIN kept |->
       [cluster |-> IF items[kept[k]].cluster_label \in {None, <<>>} THEN FALLBACK_LABEL
                    ELSE items[kept[k]].cluster_label,
        dt |-> parse_datetime(items[kept[k]].created_utc),
        score |-> ScoreOf(interaction_records[items[kept[k]].file])]])

RECURSIVE SumScores(_)
SumScores(points) ==
  IF points = <<>> THEN Frac(0, 1)
  ELSE FracAdd(Head(points).score, SumScores(Tail(points)))

\* sum(scores) / len(scores)
MeanScore(points) ==
  LET total == SumScores(points) IN Frac(total.n, total.d * Len(points))

MIN_TREND_POINTS == 6

TREND_LIMIT == 4

\* a plausible slip: no floor on the number of points
TrendOf_any_count(cluster, points) ==
  LET Mine(p) == p.cluster = cluster
      PointBefore(p, q) == DateBefore(p.dt, q.dt)
      sorted == StableSort(SelectSeq(points, Mine), PointBefore)
      mid == Len(sorted) \div 2
      early_avg == MeanScore(SubSeq(sorted, 1, mid))
      late_avg == MeanScore(SubSeq(sorted, mid + 1, Len(sorted)))
      delta == FracSub(late_avg, early_avg)
  IN IF mid = 0 THEN [side |-> "none"]
     ELSE [side |-> IF 20 * delta.n > delta.d THEN "improving"
                    ELSE IF 20 * delta.n < -delta.d THEN "needs_work"
                    ELSE "none",
           entry |-> [label |-> cluster, delta |-> Round3(delta),
                      early |-> Round3(early_avg), recent |-> Round3(late_avg),
                      count |-> Len(sorted)]]

\* the second loop of compute_cluster_trends for one cluster: the entry and
\* the side it falls on.  A difference of exactly 0.05 or -0.05 is on the
\* edge: which side of the float comparison it falls on depends on the
\* rounding of the sums.
TrendOf(cluster, points) ==
  LET Mine(p) == p.cluster = cluster
      PointBefore(p, q) == DateBefore(p.dt, q.dt)
      sorted == StableSort(SelectSeq(points, Mine), PointBefore)
      mid == Len(sorted) \div 2
      early_avg == MeanScore(SubSeq(sorted, 1, mid))
      late_avg == MeanScore(SubSeq(sorted, mid + 1, Len(sorted)))
      delta == FracSub(late_avg, early_avg)
  IN IF Len(sorted) < MIN_TREND_POINTS THEN [side |-> "none"]
     ELSE [side |-> IF 20 * delta.n > delta.d THEN "improving"
                    ELSE IF 20 * delta.n < -delta.d THEN "needs_work"
                    ELSE IF 20 * delta.n = delta.d THEN "improving_edge"
                    ELSE IF 20 * delta.n = -delta.d THEN "needs_work_edge"
                    ELSE "none",
           entry |-> [label |-> cluster, delta |-> Round3(delta),
                      early |-> Round3(early_avg), recent |-> Round3(late_avg),
                      count |-> Len(sorted)]]

\* the clusters in the order of cluster_points, each with its trend
ClusterTrends(items, interaction_records) ==
  With(ClusterPoints(items, interaction_records), LAMBDA points :
    With(CounterOf(AsTuple([k \in DOMAIN points |-> points[k].cluster])).keys,
         LAMBDA clusters :
      AsTuple([c \in DOMAIN clusters |-> TrendOf(clusters[c], points)])))

\* the clusters whose difference is exactly on an edge
EdgeClusters(items, interaction_records) ==
  LET trends == ClusterTrends(items, interaction_records)
  IN {trends[c].entry.label :
        c \in {k \in DOMAIN trends : trends[k].side \in {"improving_edge", "needs_work_edge"}}}

ImprovingBefore(a, b) ==
  \/ a.delta > b.delta
  \/ a.delta = b.delta /\ a.count > b.count

NeedsWorkBefore(a, b) ==
  \/ a.delta < b.delta
  \/ a.delta = b.delta /\ a.count > b.count

\* compute_cluster_trends(items, interaction_records), where the float
\* comparison lets the clusters of passed through that are on an edge
compute_cluster_trends(items, interaction_records, passed) ==
  With(ClusterTrends(items, interaction_records), LAMBDA trends :
    LET Entries(side, edge) ==
          LET On(t) == \/ t.side = side
                       \/ t.side = edge /\ t.entry.label \in passed
              kept == SelectSeq(trends, On)
          IN AsTuple([k \in DOMAIN kept |-> kept[k].entry])
        improving == StableSort(Entries("improving", "improving_edge"), ImprovingBefore)
        needs_work == StableSort(Entries("needs_work", "needs_work_edge"), NeedsWorkBefore)
    IN [improving |-> SubSeq(improving, 1, Min(TREND_LIMIT, Len(improving))),
        needs_work |-> SubSeq(needs_work, 1, Min(TREND_LIMIT, Len(needs_work)))])

\* a plausible slip: the clarification rate is taken over the conversations
Summary_per_conversation(totals) ==
  LET total_user == totals.user_messages
      total_assistant == totals.assistant_messages
      total_conversations == totals.conversations
  IN [total_conversations |-> total_conversations,
      total_user_messages |-> total_user,
      clarity_avg |-> Frac(totals.clarity_hits, total_user),
      constraint_rate |-> Frac(totals.constraint_hits, total_user),
      context_rate |-> Frac(totals.context_hits, total_user),
      feedback_rate |-> Frac(totals.feedback_hits, total_user),
      iteration_rate |-> Frac(totals.iteration_conversations, Max(1, total_conversations)),
      clarification_rate |-> Frac(totals.clarify_hits, Max(1, total_conversations)),
      avg_user_chars |-> Frac(totals.user_chars, total_user),
      avg_turns |-> Frac(total_user + total_assistant, Max(1, total_conversations))]

\* summary: the aggregate rates, each a fraction
Summary(totals) ==
  LET total_user == totals.user_messages
      total_assistant == totals.assistant_messages
      total_conversations == totals.conversations
  IN [total_conversations |-> total_conversations,
      total_user_messages |-> total_user,
      clarity_avg |-> Frac(totals.clarity_hits, total_user),
      constraint_rate |-> Frac(totals.constraint_hits, total_user),
      context_rate |-> Frac(totals.context_hits, total_user),
      feedback_rate |-> Frac(totals.feedback_hits, total_user),
      iteration_rate |-> Frac(totals.iteration_conversations, Max(1, total_conversations)),
      clarification_rate |-> Frac(totals.clarify_hits, Max(1, total_assistant)),
      avg_user_chars |-> Frac(totals.user_chars, total_user),
      avg_turns |-> Frac(total_user + total_assistant, Max(1, total_conversations))]

\* strength_candidates: label, the rate of the summary, and the threshold in
\* hundredths (the detail text of a candidate is fixed by its label)
STRENGTH_CANDIDATES ==
  << [label |-> <<"u95ee","u9898","u8868","u8fbe","u6e05","u6670">>,
      metric |-> "clarity_avg", threshold |-> 55, reverse |-> FALSE],
     [label |-> <<"u5584","u4e8e","u63d0","u4f9b","u7ea6","u675f","u6761","u4ef6">>,
      metric |-> "constraint_rate", threshold |-> 30, reverse |-> FALSE],
     [label |-> <<"u63d0","u4f9b","u80cc","u666f","u4fe1","u606f">>,
      metric |-> "context_rate", threshold |-> 30, reverse |-> FALSE],
     [label |-> <<"u613f","u610f","u8fed","u4ee3","u53cd","u9988">>,
      metric |-> "feedback_rate", threshold |-> 12, reverse |-> FALSE],
     [label |-> <<"u591a","u8f6e","u63a8","u8fdb","u95ee","u9898">>,
      metric |-> "iteration_rate", threshold |-> 40, reverse |-> FALSE] >>

\* gap_candidates, likewise; reverse marks the rate that is a gap when high
GAP_CANDIDATES ==
  << [label |-> <<"u95ee","u9898","u8868","u8ff0","u504f","u7b80","u7565">>,
      metric |-> "clarity_avg", threshold |-> 45, reverse |-> FALSE],
     [label |-> <<"u7ea6","u675f","u6761","u4ef6","u4e0d","u8db3">>,
      metric |-> "constraint_rate", threshold |-> 25, reverse |-> FALSE],
     [label |-> <<"u80cc","u666f","u4fe1","u606f","u504f","u5c11">>,
      metric |-> "context_rate", threshold |-> 25, reverse |-> FALSE],
     [label |-> <<"u53cd","u9988","/","u8fed","u4ee3","u4e0d","u8db3">>,
      metric |-> "feedback_rate", threshold |-> 10, reverse |-> FALSE],
     [label |-> <<"u8ffd","u95ee","u9891","u7387","u504f","u4f4e">>,
      metric |-> "iteration_rate", threshold |-> 25, reverse |-> FALSE],
     [label |-> <<"A","I"," ","u9700","u8981","u8865","u5145","u4fe1","u606f">>,
      metric |-> "clarification_rate", threshold |-> 20, reverse |-> TRUE] >>

STRENGTH_LIMIT == 3

GAP_LIMIT == 3

MetricBefore(a, b) == a.metric > b.metric

\* a plausible slip: the candidates are cut to 3 in the order of the table,
\* without the sort
Strengths_unsorted(summary) ==
  LET Strong(c) == FracAtLeast(summary[c.metric], c.threshold, 100)
      kept == SelectSeq(STRENGTH_CANDIDATES, Strong)
      listed == AsTuple([k \in DOMAIN kept |->
                  [label |-> kept[k].label, metric |-> Round3(summary[kept[k].metric])]])
  IN SubSeq(listed, 1, Min(STRENGTH_LIMIT, Len(listed)))

\* strengths: the candidates at or over their threshold, by descending
\* reported rate, the first 3
Strengths(summary) ==
  LET Strong(c) == FracAtLeast(summary[c.metric], c.threshold, 100)
      kept == SelectSeq(STRENGTH_CANDIDATES, Strong)
      listed == AsTuple([k \in DOMAIN kept |->
                  [label |-> kept[k].label, metric |-> Round3(summary[kept[k].metric])]])
      sorted == StableSort(listed, MetricBefore)
  IN SubSeq(sorted, 1, Min(STRENGTH_LIMIT, Len(sorted)))

DeltaBefore(a, b) == a.delta > b.delta

\* gaps: the candidates under their threshold (at or over it, for the
\* reverse one), by descending reported distance to it, the first 3
Gaps(summary) ==
  LET Weak(c) == IF c.reverse THEN FracAtLeast(summary[c.metric], c.threshold, 100)
                 ELSE ~FracAtLeast(summary[c.metric], c.threshold, 100)
      kept == SelectSeq(GAP_CANDIDATES, Weak)
      Distance(c) == IF c.reverse THEN FracSub(summary[c.metric], Frac(c.threshold, 100))
                     ELSE FracSub(Frac(c.threshold, 100), summary[c.metric])
      listed == AsTuple([k \in DOMAIN kept |->
                  [label |-> kept[k].label, metric |-> Round3(summary[kept[k].metric]),
                   delta |-> Round3(Distance(kept[k]))]])
      sorted == StableSort(listed, DeltaBefore)
  IN SubSeq(sorted, 1, Min(GAP_LIMIT, Len(sorted)))

QUOTE_ORDER ==
  << [key |-> "clarity", label |-> <<"u6e05","u6670","u63d0","u95ee">>],
     [key |-> "constraint", label |-> <<"u7ed9","u51fa","u7ea6","u675f">>],
     [key |-> "context", label |-> <<"u8865","u5145","u80cc","u666f">>],
     [key |-> "feedback", label |-> <<"u8fed","u4ee3","u53cd","u9988">>],
     [key |-> "vague", label |-> <<"u95ee","u9898","u504f","u7b80","u7565">>] >>

REPORT_QUOTE_LIMIT == 5

\* a plausible slip: the bucket is read as it stands, without the sort
RECURSIVE QuoteLoop_unsorted(_, _, _)
QuoteLoop_unsorted(k, quote_buckets, quotes) ==
  IF k > Len(QUOTE_ORDER) \/ Len(quotes) >= REPORT_QUOTE_LIMIT THEN quotes
  ELSE LET bucket == quote_buckets[QUOTE_ORDER[k].key]
           used == {quotes[i].file : i \in DOMAIN quotes}
           Fresh(q) == q.file \notin used
           fresh == SelectSeq(bucket, Fresh)
       IN QuoteLoop_unsorted(k + 1, quote_buckets,
            IF fresh = <<>> THEN quotes
            ELSE Append(quotes, [label |-> QUOTE_ORDER[k].label,
                                 text |-> fresh[1].text, file |-> fresh[1].file]))

\* the loop over quote_order: of each bucket, sorted, the first quote of a
\* file not used yet
RECURSIVE QuoteLoop(_, _, _)
QuoteLoop(k, quote_buckets, quotes) ==
  IF k > Len(QUOTE_ORDER) \/ Len(quotes) >= REPORT_QUOTE_LIMIT THEN quotes
  ELSE LET bucket == SortQuotes(quote_buckets[QUOTE_ORDER[k].key])
           used == {quotes[i].file : i \in DOMAIN quotes}
           Fresh(q) == q.file \notin used
           fresh == SelectSeq(bucket, Fresh)
       IN QuoteLoop(k + 1, quote_buckets,
            IF fresh = <<>> THEN quotes
            ELSE Append(quotes, [label |-> QUOTE_ORDER[k].label,
                                 text |-> fresh[1].text, file |-> fresh[1].file]))

BOUNDARY_LABEL == <<"u80fd","u529b","u8fb9","u754c","u63d0","u793a">>

REPORT_BOUNDARY_LIMIT == 4

\* boundaries: the first 4 of the sorted boundary quotes
Boundaries(boundary_quotes) ==
  LET sorted == SortQuotes(boundary_quotes)
  IN AsTuple([k \in 1..Min(REPORT_BOUNDARY_LIMIT, Len(sorted)) |->
       [label |-> BOUNDARY_LABEL, text |-> sorted[k].text, file |-> sorted[k].file]])

NO_USER_METHOD == <<"u672a","u627e","u5230","u53ef","u5206","u6790","u7684","u7528","u6237","u6d88","u606f","u3002">>

METHOD == <<"u542f","u53d1","u5f0f","u5206","u6790","u57fa","u4e8e","u672c","u5730","u5bf9","u8bdd","u6587","u672c","uff0c","u4e0d","u4e0a","u4f20","u4efb","u4f55","u6570","u636e","u3002">>

\* a plausible slip: the report without user messages keeps the boundaries
build_interaction_report_with_boundaries(items, interaction_records, totals, quote_buckets, boundary_quotes, passed) ==
  IF totals.user_messages <= 0
  THEN [summary |-> <<>>, strengths |-> <<>>, gaps |-> <<>>, quotes |-> <<>>,
        boundaries |-> Boundaries(boundary_quotes),
        cluster_trends |-> [improving |-> <<>>, needs_work |-> <<>>],
        method |-> NO_USER_METHOD]
  ELSE With(Summary(totals), LAMBDA summary :
         [summary |-> summary,
          strengths |-> Strengths(summary),
          gaps |-> Gaps(summary),
          quotes |-> QuoteLoop(1, quote_buckets, <<>>),
          boundaries |-> Boundaries(boundary_quotes),
          cluster_trends |-> compute_cluster_trends(items, interaction_records, passed),
          method |-> METHOD])

\* build_interaction_report(items, interaction_records, totals,
\* quote_buckets, boundary_quotes, generated_utc), without generated_utc;
\* passed goes to compute_cluster_trends
build_interaction_report(items, interaction_records, totals, quote_buckets, boundary_quotes, passed) ==
  IF totals.user_messages <= 0
  THEN [summary |-> <<>>, strengths |-> <<>>, gaps |-> <<>>, quotes |-> <<>>,
        boundaries |-> <<>>,
        cluster_trends |-> [improving |-> <<>>, needs_work |-> <<>>],
        method |-> NO_USER_METHOD]
  ELSE With(Summary(totals), LAMBDA summary :
         [summary |-> summary,
          strengths |-> Strengths(summary),
          gaps |-> Gaps(summary),
          quotes |-> QuoteLoop(1, quote_buckets, <<>>),
          boundaries |-> Boundaries(boundary_quotes),
          cluster_trends |-> compute_cluster_trends(items, interaction_records, passed),
          method |-> METHOD])

\* f"search_{n:04d}.json"
ShardName(n) ==
  LET Digit(p) == DIGITS[((n \div p) % 10) + 1]
      wide == IF n >= 10000 THEN <<Digit(10000)>> ELSE <<>>
  IN Str("search_") \o wide \o <<Digit(1000), Digit(100), Digit(10), Digit(1)>>
       \o Str(".json")

\* a plausible slip: the loop runs to len(entries) inclusive, so that a last,
\* empty shard is written when the entries fill the shards before it
write_search_index_to_end(entries, shard_size) ==
  LET size == IF shard_size <= 0
              THEN (IF Len(entries) = 0 THEN 1 ELSE Len(entries))
              ELSE shard_size
      starts == SelectSeq(AsTuple([k \in 1..(Len(entries) + 1) |-> k - 1]),
                          LAMBDA idx : idx % size = 0)
      Shard(idx) == SubSeq(entries, idx + 1, Min(idx + size, Len(entries)))
  IN [files |-> AsTuple([k \in 1..Len(starts) |->
                  [file |-> ShardName(starts[k] \div size),
                   items |-> Shard(starts[k])]]),
      manifest |->
        [total |-> Len(entries),
         shards |-> AsTuple([k \in 1..Len(starts) |->
                      [file |-> ShardName(starts[k] \div size),
                       count |-> Len(Shard(starts[k]))]])]]

\* write_search_index(out_dir, entries, shard_size, generated_utc): the
\* shard files in the order written, and manifest.json
write_search_index(entries, shard_size) ==
  LET size == IF shard_size <= 0
              THEN (IF Len(entries) = 0 THEN 1 ELSE Len(entries))
              ELSE shard_size
      starts == SelectSeq(AsTuple([k \in 1..Len(entries) |-> k - 1]),
                          LAMBDA idx : idx % size = 0)
      Shard(idx) == SubSeq(entries, idx + 1, Min(idx + size, Len(entries)))
  IN [files |-> AsTuple([k \in 1..Len(starts) |->
                  [file |-> ShardName(starts[k] \div size),
                   items |-> Shard(starts[k])]]),
      manifest |->
        [total |-> Len(entries),
         shards |-> AsTuple([k \in 1..Len(starts) |->
                      [file |-> ShardName(starts[k] \div size),
                       count |-> Len(Shard(starts[k]))]])]]

VARIABLES
  bucket,      \* the quote bucket push_quote works on
  limit,       \* its cap: the limit argument of the call site
  offered,     \* history: how often each quote has been pushed so far; for the
               \* five pools together, the candidates of each in call order
  truncated,   \* history: push_quote has deleted an entry
  pushes,      \* number of insertions after the initial fill
  msg,         \* the text handed to analyze_user_message
  metrics,     \* its result, NoMetrics before the call
  corpus,      \* the manifest rows with the parsed messages of their files
  items,       \* build_index: the index records
  term_texts,  \* build_index: the text of each conversation used for terms
  interaction_records,   \* build_index: the record of each conversation
  interaction_totals,    \* build_index: the corpus totals
  quote_buckets,         \* build_index: the five signal quote pools
  boundary_quotes,       \* build_index: the boundary quote pool
  zh_vocab,    \* build_index: the bootstrapped vocabulary
  doc_term_counts,       \* build_index: the term counts of each conversation
  doc_freq,    \* build_index: the document-frequency Counter
  total_docs,  \* build_index: max(1, len(items))
  idf,         \* build_index: the IDF table
  insights,    \* build_index: the hot terms and the topic counts
  pc,          \* build_index: the position of control
  tokenized,   \* history: how often each conversation has been tokenized
  run,         \* which of two successive runs is under way
  first_run,   \* the output of the first run
  search_entries,        \* build_index: the entries of the search index
  search,      \* write_search_index: the shards and the manifest written
  report,      \* build_interaction_report: the report written
  zh_seq,      \* segment_zh: the run of Chinese characters
  seg_vocab,   \* segment_zh: the vocabulary
  seg_tokens,  \* segment_zh: the tokens returned
  json_text,   \* iter_json_array: the text of the file at path
  chunk_size,  \* iter_json_array: the number of characters of one read
  yielded,     \* iter_json_array: the values yielded
  mapping,     \* pick_path: the nodes of a conversation by their id
  current_node,          \* pick_path: the id the export names as current
  path,        \* pick_path: the list returned
  call_pc      \* the position of control of a function called on its own

pushVars == <<bucket, limit, offered, truncated, pushes>>

msgVars == <<msg, metrics>>

indexVars ==
  <<corpus, items, term_texts, interaction_records, interaction_totals,
    quote_buckets, boundary_quotes, zh_vocab, doc_term_counts, doc_freq,
    total_docs, idf, insights, pc, tokenized>>

runVars == <<run, first_run>>

outVars == <<search_entries, search, report>>

segVars == <<zh_seq, seg_vocab, seg_tokens>>

jsonVars == <<json_text, chunk_size, yielded>>

pathVars == <<mapping, current_node, path>>

callVars == <<segVars, jsonVars, pathVars, call_pc>>

vars == <<pushVars, msgVars, indexVars, runVars, outVars, callVars>>

IdleIndex ==
  /\ corpus = <<>>
  /\ items = <<>>
  /\ term_texts = <<>>
  /\ interaction_records = <<>>
  /\ interaction_totals = ZeroTotals
  /\ quote_buckets = EmptyBuckets
  /\ boundary_quotes = <<>>
  /\ zh_vocab = {}
  /\ doc_term_counts = <<>>
  /\ doc_freq = EmptyCounter
  /\ total_docs = 0
  /\ idf = <<>>
  /\ insights = None
  /\ pc = "idle"
  /\ tokenized = <<>>

IdleRuns ==
  /\ run = 0
  /\ first_run = <<>>

\* nothing collected for the search index, no output written
IdleOut ==
  /\ search_entries = <<>>
  /\ search = None
  /\ report = None

IdleSeg ==
  /\ zh_seq = <<>>
  /\ seg_vocab = {}
  /\ seg_tokens = <<>>

IdleJson ==
  /\ json_text = <<>>
  /\ chunk_size = 0
  /\ yielded = <<>>

IdlePath ==
  /\ mapping = <<>>
  /\ current_node = ""
  /\ path = <<>>

IdleCall ==
  /\ IdleSeg
  /\ IdleJson
  /\ IdlePath
  /\ call_pc = "idle"

QuoteTexts == {Str("a"), Str("b")}

QuoteFiles == {Str("f1"), Str("f2")}

Quotes == [text : QuoteTexts, file : QuoteFiles, score : 1..MaxScore]

\* A bucket below its cap is whatever was appended, in call order.  The
\* initial fills are such call sequences: none, or one short of the cap with
\* equal or with cycling scores.
FillQuote(kind, i) ==
  IF kind = 1 THEN [text |-> Str("ab"), file |-> Str("f1"), score |-> 2]
  ELSE [text |-> IF i % 2 = 0 THEN Str("a") ELSE Str("b"),
        file |-> IF i % 4 < 2 THEN Str("f1") ELSE Str("f2"),
        score |-> 1 + (i % 3)]

InitialFill(lim, kind) ==
  IF kind = 0 THEN <<>> ELSE [i \in 1..(lim - 1) |-> FillQuote(kind, i)]

\* every quote that can be pushed
QuoteUniverse ==
  Quotes \cup {FillQuote(kind, i) : kind \in 1..2, i \in 1..(SIGNAL_QUOTE_LIMIT - 1)}

Count(seq, x) == Cardinality({i \in DOMAIN seq : seq[i] = x})

IdlePush ==
  /\ bucket = <<>>
  /\ limit = 0
  /\ offered = <<>>
  /\ truncated = FALSE
  /\ pushes = 0

InitPush ==
  /\ limit \in {SIGNAL_QUOTE_LIMIT, BOUNDARY_QUOTE_LIMIT}
  /\ \E kind \in 0..2 : bucket = InitialFill(limit, kind)
  /\ offered = [q \in QuoteUniverse |-> Count(bucket, q)]
  /\ truncated = FALSE
  /\ pushes = 0
  /\ msg = <<>>
  /\ metrics = [text |-> <<>>, char_len |-> -1]
  /\ IdleIndex
  /\ IdleRuns
  /\ IdleOut
  /\ IdleCall

\* one call push_quote(bucket, quote, limit)
PushQuote ==
  /\ pushes < MaxPush
  /\ \E quote \in Quotes :
       /\ bucket' = push_quote(bucket, quote, limit)
       /\ offered' = [offered EXCEPT ![quote] = @ + 1]
  /\ truncated' = (truncated \/ Len(bucket) + 1 > limit)
  /\ pushes' = pushes + 1
  /\ UNCHANGED <<limit, msgVars, indexVars, runVars, outVars, callVars>>

NextPush == PushQuote

SpecPush == InitPush /\ [][NextPush]_vars

\* C1: a bucket never holds more than its cap after an insertion, and once
\* push_quote has truncated, the bucket holds exactly cap entries, all of them
\* offered ones, and no offered entry left out sorts before a kept one.
C1_QuotePoolBound ==
  /\ Len(bucket) <= limit
  /\ truncated =>
       /\ Len(bucket) = limit
       /\ \A q \in Range(bucket) : Count(bucket, q) <= offered[q]
       /\ \A q \in QuoteUniverse :
            Count(bucket, q) < offered[q] =>
              \A i \in DOMAIN bucket : ~QuoteBefore(q, bucket[i])

\* truncations evicted initial entries in favour of later, better ones
C1_Witness ==
  /\ truncated
  /\ pushes >= 2
  /\ Len(bucket) = limit
  /\ \E q \in Quotes : offered[q] > 0 /\ Count(bucket, q) = offered[q]
  /\ \E q \in QuoteUniverse \ Quotes : Count(bucket, q) < offered[q]

\* no entry of the bucket has a lower score than a later one
DescendingScores(b) ==
  \A i \in DOMAIN b : \A j \in DOMAIN b : i < j => b[i].score >= b[j].score

\* C20 as stated: after every push_quote insertion, whatever the number of
\* entries, the bucket is in descending score order.
C20_AlwaysDescending == pushes > 0 => DescendingScores(bucket)

\* C20, amended: after every push_quote insertion that brings the bucket
\* over its cap, the bucket is in descending score order.
C20_DescendingOverCap ==
  [][Len(bucket) + 1 > limit /\ pushes' = pushes + 1 => DescendingScores(bucket')]_vars

\* an insertion found the bucket at its cap, out of score order, and left it
\* in descending order with more than one score
C20_Witness ==
  /\ truncated
  /\ pushes = 2
  /\ Len(bucket) = limit
  /\ DescendingScores(bucket)
  /\ bucket[1].score > bucket[Len(bucket)].score
  /\ ~DescendingScores(InitialFill(limit, 2))
  /\ \E i \in DOMAIN bucket : bucket[i] = FillQuote(2, 2)

\* below the cap the bucket is in call order, out of score order
C20_BelowCapWitness ==
  /\ ~truncated
  /\ pushes = 2
  /\ Len(bucket) = 2
  /\ bucket[1].score < bucket[2].score

(***************************************************************************)
(* analyze_user_message applied to one message.                            *)
(***************************************************************************)
MsgFragments ==
  { Str("abc"), Str("de"), Str(" "), Str("?"), Str("1"), Str("-"), Str("How"),
    <<"u8bf7">>,            \* 请
    <<"u9884","u7b97">>,    \* 预算
    <<"u6211","u7684">> }   \* 我的

RECURSIVE Concats(_)
Concats(n) ==
  IF n = 0 THEN {<<>>}
  ELSE Concats(n - 1) \cup {m \o f : m \in Concats(n - 1), f \in MsgFragments}

\* the messages of the model: up to MaxFrags fragments in a row
Messages == Concats(MaxFrags)

NoMetrics == [text |-> <<>>, char_len |-> -1]

IdleMsg ==
  /\ msg = <<>>
  /\ metrics = NoMetrics

InitMsg ==
  /\ msg \in Messages
  /\ metrics = NoMetrics
  /\ IdlePush
  /\ IdleIndex
  /\ IdleRuns
  /\ IdleOut
  /\ IdleCall

\* metrics = analyze_user_message(text)
AnalyzeUserMessage ==
  /\ metrics = NoMetrics
  /\ metrics' = analyze_user_message(msg)
  /\ UNCHANGED <<msg, pushVars, indexVars, runVars, outVars, callVars>>

NextMsg == AnalyzeUserMessage

SpecMsg == InitMsg /\ [][NextMsg]_vars

HasQuestionMark(text) == \E i \in DOMAIN text : text[i] \in {"?", "uff1f"}

HasDigit(text) == \E i \in DOMAIN text : IsDigit(text[i])

Analyzed == metrics # NoMetrics

\* C10 as claimed: every analysed message of 5 characters without question
\* mark and without digits is vague and not clear.
C10_FiveCharsVague ==
  (Analyzed /\ Len(msg) = 5 /\ ~HasQuestionMark(msg) /\ ~HasDigit(msg))
    => (metrics.vague /\ ~metrics.clear)

\* C10 as amended: every analysed message of 5 characters without question
\* mark and digits that also has no request phrase, no leading list marker, no
\* constraint phrase and no context phrase is vague and not clear.
C10_FiveCharsPlainVague ==
  (/\ Analyzed /\ Len(msg) = 5 /\ ~HasQuestionMark(msg) /\ ~HasDigit(msg)
   /\ ~SearchAlts(REQUEST_RE_ALTS, msg)
   /\ ~SearchStructure(msg)
   /\ ~SearchAlts(CONSTRAINT_RE_ALTS, msg)
   /\ ~SearchAlts(CONTEXT_RE_ALTS, msg))
    => (metrics.vague /\ ~metrics.clear)

\* a plain 5 character message has been analysed
C10_Witness ==
  /\ Analyzed /\ Len(msg) = 5 /\ ~HasQuestionMark(msg) /\ ~HasDigit(msg)
  /\ ~SearchAlts(REQUEST_RE_ALTS, msg)
  /\ ~SearchStructure(msg)
  /\ ~SearchAlts(CONSTRAINT_RE_ALTS, msg)
  /\ ~SearchAlts(CONTEXT_RE_ALTS, msg)
  /\ metrics.vague

(***************************************************************************)
(* build_index: the row loop, the vocabulary, pass 1 (term counts and      *)
(* document frequencies), the IDF table and pass 2 (keywords and topic).   *)
(* A corpus is the manifest with, for each row, the messages that          *)
(* parse_messages returns for its file.  Of the index record the title,    *)
(* file, keywords and cluster_label are kept.                              *)
(***************************************************************************)
MaxDocs == 6

USER_ETF_QUESTION == Str("What's the best ETF for long-term investing?")

Message(role, body) == [role |-> Str(role), body |-> Str(body)]

\* the conversations the corpora are made of
Conversations ==
  [etf |->
     [title |-> Str("Chat"),
      messages |-> << [role |-> Str("user"), body |-> USER_ETF_QUESTION],
                      Message("assistant", "Index funds offer broad low cost exposure and steady growth overall") >>],
   garden |->
     [title |-> Str("Garden"),
      messages |-> << Message("user", "tomato garden json tips myTool"),
                      Message("assistant", "Water the tomato daily") >>],
   note |->
     [title |-> Str("Note"),
      messages |-> << [role |-> Str("user"),
                       body |-> Str("hello ") \o <<"u5496","u5561","u57fa","u91d1">>],
                      Message("assistant", "I cannot browse; please provide more details"),
                      Message("assistant", "{\"path\": \"a\"}") >>]]

KindOrder == <<"etf", "garden", "note">>

\* row i of the manifest, for a conversation of the given kind
RowOf(kind, i) ==
  [file |-> <<"f", DIGITS[i + 1]>>, title |-> Conversations[kind].title,
   created_utc |-> <<>>, count |-> Len(Conversations[kind].messages),
   exists |-> TRUE, messages |-> Conversations[kind].messages]

KindCounts == [1..Len(KindOrder) -> 0..MaxDocs]

KindsOf(cnt) ==
  [i \in 1..(cnt[1] + cnt[2] + cnt[3]) |->
     IF i <= cnt[1] THEN KindOrder[1]
     ELSE IF i <= cnt[1] + cnt[2] THEN KindOrder[2] ELSE KindOrder[3]]

CorpusOf(kinds) == AsTuple([i \in 1..Len(kinds) |-> RowOf(kinds[i], i)])

\* the titles and the replies of Scenario A
ScenarioTitles == {<<>>, Str("Chat"), Str("Garden notes"), Str("ETF basics")}

ScenarioReplies ==
  { Str("Index funds offer broad low cost exposure and steady growth overall"),
    Str("Sure, here are some ideas."),
    Str("Python API and Python SQL"),
    Str("Water the tomato daily; see a.py: line 3") }

\* Scenario A: one conversation, the question and one assistant reply
ScenarioCorpus(title, reply) ==
  << [file |-> <<"f", "1">>, title |-> title, created_utc |-> <<>>,
      count |-> 2, exists |-> TRUE,
      messages |-> << [role |-> Str("user"), body |-> USER_ETF_QUESTION],
                      [role |-> Str("assistant"), body |-> reply] >>] >>

DEBUG_TERM == <<"u8c03", "u8bd5">>

\* a conversation that names DEBUG_TERM twice
DEBUG_CONVERSATION ==
  [title |-> Str("Bug"),
   messages |-> << [role |-> Str("user"),
                    body |-> DEBUG_TERM \o Str(" loop ") \o DEBUG_TERM \o Str(" again")],
                   Message("assistant", "Try a breakpoint") >>]

SCENARIO_C_HITS == {1, 3, 7}

\* the file of row i of a manifest of up to 99 rows
FileOf(i) ==
  IF i < 10 THEN <<"f", DIGITS[i + 1]>>
  ELSE <<"f", DIGITS[(i \div 10) + 1], DIGITS[(i % 10) + 1]>>

\* Scenario C: 10 conversations, the first k of them name DEBUG_TERM
ScenarioCCorpus(k) ==
  AsTuple([i \in 1..10 |->
     LET c == IF i <= k THEN DEBUG_CONVERSATION ELSE Conversations["garden"]
     IN [file |-> FileOf(i), title |-> c.title, created_utc |-> <<>>,
         count |-> Len(c.messages), exists |-> TRUE, messages |-> c.messages]])

\* conversations without a usable user message (a reply only, a user
\* message that is a tool-call payload, a message of another role), one
\* with a question and a reply, and one with a question and no reply
EDGE_CONVERSATIONS ==
  [reply |->
     [title |-> Str("Reply"),
      messages |-> << Message("assistant", "I cannot browse; please provide more details") >>],
   payload |->
     [title |-> Str("Tools"),
      messages |-> << Message("user", "{\"path\": \"a\"}"),
                      Message("assistant", "Water the tomato daily") >>],
   system |->
     [title |-> Str("System"),
      messages |-> << Message("system", "Be brief") >>],
   asked |-> Conversations["etf"],
   unanswered |->
     [title |-> Str("Asked"),
      messages |-> << [role |-> Str("user"), body |-> USER_ETF_QUESTION] >>]]

EdgeKinds == DOMAIN EDGE_CONVERSATIONS \cup {"missing"}

\* row i of the manifest for a conversation of the given kind; the file of
\* a row of kind missing does not exist, the manifest counts 2 messages
EdgeRow(kind, i) ==
  IF kind = "missing"
  THEN [file |-> FileOf(i), title |-> Str("Lost"), created_utc |-> <<>>,
        count |-> 2, exists |-> FALSE, messages |-> <<>>]
  ELSE [file |-> FileOf(i), title |-> EDGE_CONVERSATIONS[kind].title,
        created_utc |-> <<>>, count |-> Len(EDGE_CONVERSATIONS[kind].messages),
        exists |-> TRUE, messages |-> EDGE_CONVERSATIONS[kind].messages]

EdgeCorpora ==
  {<<EdgeRow(a, 1)>> : a \in EdgeKinds}
    \cup {<<EdgeRow(a, 1), EdgeRow(b, 2)>> : a \in EdgeKinds, b \in EdgeKinds}

\* the corpora: up to MaxDocs conversations, grouped by kind, the
\* single-conversation corpora of Scenario A, the corpora of Scenario C, and
\* the corpora of one and two conversations of the edge kinds
Corpora ==
  {CorpusOf(KindsOf(cnt)) : cnt \in {c \in KindCounts : c[1] + c[2] + c[3] <= MaxDocs}}
    \cup {ScenarioCorpus(t, r) : t \in ScenarioTitles, r \in ScenarioReplies}
    \cup {ScenarioCCorpus(k) : k \in SCENARIO_C_HITS}
    \cup EdgeCorpora

\* build_index up to the row loop
StartOf(c) ==
  /\ corpus = c
  /\ items = <<>>
  /\ term_texts = <<>>
  /\ interaction_records = <<>>
  /\ interaction_totals = ZeroTotals
  /\ quote_buckets = EmptyBuckets
  /\ boundary_quotes = <<>>
  /\ zh_vocab = {}
  /\ doc_term_counts = <<>>
  /\ doc_freq = EmptyCounter
  /\ total_docs = 0
  /\ idf = <<>>
  /\ insights = None
  /\ pc = "rows"
  /\ tokenized = [i \in DOMAIN c |-> 0]

InitIndex ==
  /\ \E c \in Corpora : StartOf(c)
  /\ IdlePush
  /\ IdleMsg
  /\ IdleRuns
  /\ IdleOut
  /\ IdleCall

\* d[key] = value
DictSet(d, key, value) ==
  [k \in DOMAIN d \cup {key} |-> IF k = key THEN value ELSE d[k]]

\* one pass of the row loop; the file of a row that does not exist gives no
\* messages, and the record's count of messages is the manifest's
ReadRow ==
  /\ pc = "rows"
  /\ Len(items) < Len(corpus)
  /\ \E row \in {corpus[Len(items) + 1]} :
     \E messages \in {IF row.exists THEN row.messages ELSE <<>>} :
     \E title \in {IF row.title = <<>> THEN Str("Untitled") ELSE row.title} :
     \E a \in {analyze_conversation(messages, row.file, row.created_utc,
                                    interaction_totals, quote_buckets, boundary_quotes)} :
        /\ interaction_totals' = a.totals
        /\ quote_buckets' = a.quote_buckets
        /\ boundary_quotes' = a.boundary_quotes
        /\ interaction_records' =
             IF a.record = None THEN interaction_records
             ELSE DictSet(interaction_records, row.file, a.record)
        /\ items' = Append(items,
             [title |-> title, created_utc |-> row.created_utc,
              messages |-> row.count, file |-> row.file,
              keywords |-> <<>>, cluster_label |-> None])
        /\ search_entries' = Append(search_entries, [file |-> row.file, title |-> title])
        /\ term_texts' =
             Append(term_texts,
                    strip_artifact_lines(row.title \o <<"\n">>
                                           \o extract_text(messages, FALSE)))
  /\ UNCHANGED <<corpus, zh_vocab, doc_term_counts, doc_freq, total_docs, idf,
                 insights, pc, tokenized, pushVars, msgVars, runVars, search, report, callVars>>

\* zh_vocab = build_zh_vocab(term_texts), and the empty tables of pass 1
BuildZhVocab ==
  /\ pc = "rows"
  /\ Len(items) = Len(corpus)
  /\ zh_vocab' = build_zh_vocab(term_texts)
  /\ doc_term_counts' = <<>>
  /\ doc_freq' = EmptyCounter
  /\ pc' = "tokenize"
  /\ UNCHANGED <<corpus, items, term_texts, interaction_records, interaction_totals,
                 quote_buckets, boundary_quotes, total_docs, idf, insights, tokenized,
                 pushVars, msgVars, runVars, outVars, callVars>>

\* a plausible slip: doc_freq.update(terms), every occurrence counted
TokenizeDocCountingOccurrences ==
  /\ pc = "tokenize"
  /\ Len(doc_term_counts) < Len(term_texts)
  /\ \E k \in {Len(doc_term_counts) + 1} :
     \E terms \in {tokenize_v2(term_texts[k], zh_vocab)} :
        /\ doc_term_counts' = Append(doc_term_counts, CounterOf(terms))
        /\ doc_freq' = CounterUpdate(doc_freq, terms)
        /\ tokenized' = [tokenized EXCEPT ![k] = @ + 1]
  /\ UNCHANGED <<corpus, items, term_texts, interaction_records, interaction_totals,
                 quote_buckets, boundary_quotes, zh_vocab, total_docs, idf, insights, pc,
                 pushVars, msgVars, runVars, outVars, callVars>>

\* one pass of the loop of pass 1
TokenizeDoc ==
  /\ pc = "tokenize"
  /\ Len(doc_term_counts) < Len(term_texts)
  /\ \E k \in {Len(doc_term_counts) + 1} :
     \E counts \in {CounterOf(tokenize_v2(term_texts[k], zh_vocab))} :
        /\ doc_term_counts' = Append(doc_term_counts, counts)
        /\ doc_freq' = CounterUpdate(doc_freq, counts.keys)
        /\ tokenized' = [tokenized EXCEPT ![k] = @ + 1]
  /\ UNCHANGED <<corpus, items, term_texts, interaction_records, interaction_totals,
                 quote_buckets, boundary_quotes, zh_vocab, total_docs, idf, insights, pc,
                 pushVars, msgVars, runVars, outVars, callVars>>

\* a plausible slip: total_docs = len(items), without the floor of 1
ComputeIdf_no_floor ==
  /\ pc = "tokenize"
  /\ Len(doc_term_counts) = Len(term_texts)
  /\ total_docs' = Len(items)
  /\ idf' = IdfTable(doc_freq, Len(items))
  /\ pc' = "score"
  /\ UNCHANGED <<corpus, items, term_texts, interaction_records, interaction_totals,
                 quote_buckets, boundary_quotes, zh_vocab, doc_term_counts, doc_freq,
                 insights, tokenized, pushVars, msgVars, runVars, outVars, callVars>>

\* total_docs and the IDF table
ComputeIdf ==
  /\ pc = "tokenize"
  /\ Len(doc_term_counts) = Len(term_texts)
  /\ total_docs' = Max(1, Len(items))
  /\ idf' = IdfTable(doc_freq, Max(1, Len(items)))
  /\ pc' = "score"
  /\ UNCHANGED <<corpus, items, term_texts, interaction_records, interaction_totals,
                 quote_buckets, boundary_quotes, zh_vocab, doc_term_counts, doc_freq,
                 insights, tokenized, pushVars, msgVars, runVars, outVars, callVars>>

\* the number of records pass 2 has filled in
Scored == Cardinality({i \in DOMAIN items : items[i].cluster_label # None})

\* a plausible slip: one loop tokenizes and scores, with the tables so far
ScoreDocInPassOne ==
  /\ pc = "tokenize"
  /\ Scored < Len(doc_term_counts)
  /\ \E k \in {Scored + 1} : \E total \in {Max(1, Len(items))} :
     \E keywords \in {tfidf_keywords(doc_term_counts[k], IdfTable(doc_freq, total),
                                      doc_freq, total)} :
        items' = [items EXCEPT
                    ![k].keywords = keywords,
                    ![k].cluster_label =
                       assign_topic_label(doc_term_counts[k], keywords, doc_freq, total)]
  /\ UNCHANGED <<corpus, term_texts, interaction_records, interaction_totals,
                 quote_buckets, boundary_quotes, zh_vocab, doc_term_counts, doc_freq,
                 total_docs, idf, insights, pc, tokenized, pushVars, msgVars, runVars, outVars, callVars>>

\* one pass of the loop of pass 2
ScoreDoc ==
  /\ pc = "score"
  /\ Scored < Len(items)
  /\ \E k \in {Scored + 1} :
     \E keywords \in {tfidf_keywords(doc_term_counts[k], idf, doc_freq, total_docs)} :
        items' = [items EXCEPT
                    ![k].keywords = keywords,
                    ![k].cluster_label =
                       assign_topic_label(doc_term_counts[k], keywords, doc_freq, total_docs)]
  /\ UNCHANGED <<corpus, term_texts, interaction_records, interaction_totals,
                 quote_buckets, boundary_quotes, zh_vocab, doc_term_counts, doc_freq,
                 total_docs, idf, insights, pc, tokenized, pushVars, msgVars, runVars, outVars, callVars>>

HOT_TERM_LIMIT == 40

CLUSTER_LIMIT == 30

\* Counter.most_common(): the keys by count, highest first, keys of equal
\* count in the order in which they were first counted
most_common(c) ==
  OrderByRank(c.keys,
              AsTuple([i \in 1..Len(c.keys) |->
                         1 + Cardinality({j \in 1..Len(c.keys) :
                               \/ c.n[c.keys[j]] > c.n[c.keys[i]]
                               \/ c.n[c.keys[j]] = c.n[c.keys[i]] /\ j < i})]))

\* top_terms.append(term) unless term is in seen_terms
AppendNew(top, term) == IF term \in Range(top) THEN top ELSE Append(top, term)

\* the loop that fills top_terms: two Chinese terms, then one other term
RECURSIVE HotTermLoop(_, _, _, _, _)
HotTermLoop(top, zh_terms, zh_idx, other_terms, other_idx) ==
  IF ~(Len(top) < HOT_TERM_LIMIT
         /\ (zh_idx < Len(zh_terms) \/ other_idx < Len(other_terms)))
  THEN top
  ELSE LET TakeZh(st) ==
             IF st.idx < Len(zh_terms) /\ Len(st.top) < HOT_TERM_LIMIT
             THEN [top |-> AppendNew(st.top, zh_terms[st.idx + 1]), idx |-> st.idx + 1]
             ELSE st
       IN With(TakeZh(TakeZh([top |-> top, idx |-> zh_idx])), LAMBDA z :
            IF other_idx < Len(other_terms) /\ Len(z.top) < HOT_TERM_LIMIT
            THEN HotTermLoop(AppendNew(z.top, other_terms[other_idx + 1]),
                             zh_terms, z.idx, other_terms, other_idx + 1)
            ELSE HotTermLoop(z.top, zh_terms, z.idx, other_terms, other_idx))

\* top_terms of build_index
TopTerms(df, total) ==
  LET Good(t) == is_good_keyword(t, df, total)
      Pinned(t) == t \in DOMAIN df.n /\ Good(t)
      NotChinese(t) == ~is_chinese_term(t)
  IN With(SelectSeq(most_common(df), Good), LAMBDA keyword_candidates :
       HotTermLoop(SelectSeq(PINNED_KEYWORDS, Pinned),
                   SelectSeq(keyword_candidates, is_chinese_term), 0,
                   SelectSeq(keyword_candidates, NotChinese), 0))

\* the dict insights of build_index, without month_counts
InsightsOf(its, df, total) ==
  LET cluster_counts ==
        CounterOf(AsTuple([i \in 1..Len(its) |->
                             IF its[i].cluster_label = None THEN FALLBACK_LABEL
                             ELSE its[i].cluster_label]))
      clusters == most_common(cluster_counts)
      top_terms == TopTerms(df, total)
  IN [top_keywords |->
        AsTuple([k \in 1..Len(top_terms) |->
                   [term |-> top_terms[k], count |-> CounterGet(df, top_terms[k])]]),
      clusters |->
        AsTuple([k \in 1..Min(CLUSTER_LIMIT, Len(clusters)) |->
                   [label |-> clusters[k], count |-> cluster_counts.n[clusters[k]]]])]

\* the hot terms and the topic counts, once pass 2 is through
BuildInsights ==
  /\ pc = "score"
  /\ Scored = Len(items)
  /\ insights' = InsightsOf(items, doc_freq, total_docs)
  /\ pc' = "done"
  /\ UNCHANGED <<corpus, items, term_texts, interaction_records, interaction_totals,
                 quote_buckets, boundary_quotes, zh_vocab, doc_term_counts, doc_freq,
                 total_docs, idf, tokenized, pushVars, msgVars, runVars, outVars, callVars>>

\* the values of search_shard_size the runs are made with
SHARD_SIZES == {-1, 0, 1, 2, 3, 300}

\* bucket.sort(...) of every signal pool, as the quote loop leaves them
SortedBuckets(buckets) == [key \in DOMAIN buckets |-> SortQuotes(buckets[key])]

\* the end of build_index, with search_index_dir and interaction_out set as
\* main sets them: the search shards and the interaction report
WriteOutputs ==
  /\ pc = "done"
  /\ \E search_shard_size \in SHARD_SIZES :
       search' = [shard_size |-> search_shard_size]
                   @@ write_search_index(search_entries, search_shard_size)
  /\ \E passed \in SUBSET EdgeClusters(items, interaction_records) :
       report' = build_interaction_report(items, interaction_records,
                                          interaction_totals, quote_buckets,
                                          boundary_quotes, passed)
  /\ quote_buckets' = IF interaction_totals.user_messages <= 0 THEN quote_buckets
                       ELSE SortedBuckets(quote_buckets)
  /\ boundary_quotes' = IF interaction_totals.user_messages <= 0 THEN boundary_quotes
                         ELSE SortQuotes(boundary_quotes)
  /\ pc' = "written"
  /\ UNCHANGED <<corpus, items, term_texts, interaction_records, interaction_totals,
                 zh_vocab, doc_term_counts, doc_freq, total_docs, idf, insights,
                 tokenized, search_entries, pushVars, msgVars, runVars, callVars>>

NextIndex ==
  ReadRow \/ BuildZhVocab \/ TokenizeDoc \/ ComputeIdf \/ ScoreDoc \/ BuildInsights
    \/ WriteOutputs

SpecIndex == InitIndex /\ [][NextIndex]_vars

(***************************************************************************)
(* Properties of build_index.                                              *)
(***************************************************************************)
PassTwoBegun == pc \in {"score", "done", "written"}

SomeScored ==
  \E i \in DOMAIN items : items[i].keywords # <<>> \/ items[i].cluster_label # None

\* in how many conversations the term occurs at least once
DocumentFrequency(t) ==
  Cardinality({d \in DOMAIN doc_term_counts : t \in DOMAIN doc_term_counts[d].n})

RULE_LABELS == {TOPIC_RULES[r].label : r \in DOMAIN TOPIC_RULES}

\* C2: every keyword list has at most 8 entries, and every entry passes the
\* keyword gate: it is not blacklisted, no stopword and no noise term, it
\* occurs in at least 2 conversations and in at most 60% of them.
C2_KeywordGate ==
  \A i \in DOMAIN items :
     /\ Len(items[i].keywords) <= 8
     /\ \A k \in DOMAIN items[i].keywords :
          /\ LowerStr(items[i].keywords[k])
               \notin (KEYWORD_BLACKLIST \cup EN_STOPWORDS \cup NOISE_TERMS)
          /\ items[i].keywords[k] \notin ZH_STOPWORDS
          /\ ~is_noise_term(items[i].keywords[k])
          /\ DocumentFrequency(items[i].keywords[k]) >= 2
          /\ 10 * DocumentFrequency(items[i].keywords[k]) <= 6 * Len(corpus)

\* pass 2 is through, a list was cut to 8 entries, and a term that occurs in
\* more than 60% of the conversations was kept out of every list
C2_Witness ==
  /\ pc = "done"
  /\ \E i \in DOMAIN items :
        /\ Len(items[i].keywords) = 8
        /\ Cardinality({t \in DOMAIN doc_term_counts[i].n :
                          is_good_keyword(t, doc_freq, total_docs)}) > 8
  /\ \E t \in DOMAIN doc_freq.n :
        /\ 10 * DocumentFrequency(t) > 6 * Len(corpus)
        /\ is_good_keyword(t, doc_freq, 2 * Len(corpus))

\* C3: the cluster_label of every scored conversation is a label of
\* TOPIC_RULES, or a term of the conversation's own keyword list, or the
\* fallback category.
C3_TopicCoverage ==
  \A i \in DOMAIN items :
     items[i].cluster_label # None =>
        items[i].cluster_label
          \in (RULE_LABELS \cup Range(items[i].keywords) \cup {FALLBACK_LABEL})

\* one index holds a rule label, a label taken from the conversation's own
\* keywords, and the fallback category next to keywords that did not qualify
C3_Witness ==
  /\ pc = "done"
  /\ \E i \in DOMAIN items : items[i].cluster_label \in RULE_LABELS
  /\ \E i \in DOMAIN items :
        /\ items[i].cluster_label \in Range(items[i].keywords)
        /\ items[i].cluster_label \notin RULE_LABELS
  /\ \E i \in DOMAIN items :
        /\ items[i].cluster_label = FALLBACK_LABEL
        /\ \E t \in DOMAIN doc_freq.n :
              DocumentFrequency(t) >= 3 /\ t \notin Range(items[i].keywords)

\* C5: N is max(1, number of conversations), the IDF table has an entry for
\* every term, and of two terms the one that occurs in fewer conversations
\* has the strictly greater IDF.
C5_IdfMonotone ==
  PassTwoBegun =>
     /\ total_docs = Max(1, Len(corpus))
     /\ DOMAIN idf = UNION {DOMAIN doc_term_counts[d].n : d \in DOMAIN doc_term_counts}
     /\ \A t1 \in DOMAIN idf : \A t2 \in DOMAIN idf :
           DocumentFrequency(t1) < DocumentFrequency(t2) => idf[t1] > idf[t2]

\* the IDF table holds terms of three different document frequencies
C5_Witness ==
  /\ PassTwoBegun
  /\ \E t1 \in DOMAIN idf : \E t2 \in DOMAIN idf : \E t3 \in DOMAIN idf :
        /\ DocumentFrequency(t1) < DocumentFrequency(t2)
        /\ DocumentFrequency(t2) < DocumentFrequency(t3)

\* pass 1 is complete: the vocabulary is built from the texts of all
\* conversations, every conversation has been tokenized exactly once, and
\* the document-frequency table counts every conversation
PassOneComplete ==
  /\ Len(term_texts) = Len(corpus)
  /\ zh_vocab = build_zh_vocab(term_texts)
  /\ \A j \in DOMAIN corpus : tokenized[j] = 1
  /\ Len(doc_term_counts) = Len(corpus)
  /\ DOMAIN doc_freq.n = UNION {DOMAIN doc_term_counts[d].n : d \in DOMAIN doc_term_counts}
  /\ \A t \in DOMAIN doc_freq.n : doc_freq.n[t] = DocumentFrequency(t)

\* C7: no keywords and no cluster_label are computed before pass 1 is
\* complete; and from the first computed keywords or topic on no step
\* changes the vocabulary, the term counts, the document-frequency table or
\* the IDF table, and a step changes the record of at most one conversation.
C7_PassOrder ==
  /\ [](SomeScored => PassOneComplete)
  /\ [][SomeScored' =>
          /\ zh_vocab' = zh_vocab
          /\ doc_term_counts' = doc_term_counts
          /\ doc_freq' = doc_freq
          /\ idf' = idf
          /\ Len(items') = Len(items)
          /\ Cardinality({i \in DOMAIN items : items'[i] # items[i]}) <= 1]_vars

\* pass 2 is through for a corpus of several conversations with keywords
C7_Witness ==
  /\ pc = "done"
  /\ Len(items) >= 3
  /\ \A i \in DOMAIN items : items[i].cluster_label # None
  /\ \E i \in DOMAIN items : items[i].keywords # <<>>

\* Scenario A: the corpus is one conversation, the question about the ETF and
\* one assistant reply
ScenarioA ==
  /\ Len(corpus) = 1
  /\ Len(corpus[1].messages) = 2
  /\ corpus[1].messages[1] = [role |-> Str("user"), body |-> USER_ETF_QUESTION]
  /\ base_role(corpus[1].messages[2].role) = Str("assistant")

TRIGGERS_LOWER ==
  UNION {{LowerStr(t) : t \in TOPIC_RULES[r].triggers} : r \in DOMAIN TOPIC_RULES}

\* no term of the text is a trigger of a topic rule
AddsNoTrigger(text) ==
  \A term \in Range(tokenize_v2(text, DOMAIN_ZH_TERMS)) : LowerStr(term) \notin TRIGGERS_LOWER

INVESTING_LABEL == <<"u6295", "u8d44", "u7406", "u8d22">>

\* C8: in Scenario A, with a title and a reply that add no trigger term, the
\* user message is flagged clear and the topic label is INVESTING_LABEL.
C8_ScenarioATopic ==
  (/\ pc = "done"
   /\ ScenarioA
   /\ AddsNoTrigger(corpus[1].title)
   /\ AddsNoTrigger(corpus[1].messages[2].body))
    => /\ items[1].cluster_label = INVESTING_LABEL
       /\ corpus[1].file \in DOMAIN interaction_records
       /\ interaction_records[corpus[1].file].user_messages = 1
       /\ interaction_records[corpus[1].file].clear_hits = 1

\* Scenario A has run to the end with a title and a reply of several terms,
\* none of them a trigger
C8_Witness ==
  /\ pc = "done"
  /\ ScenarioA
  /\ AddsNoTrigger(corpus[1].title)
  /\ AddsNoTrigger(corpus[1].messages[2].body)
  /\ tokenize_v2(corpus[1].title, DOMAIN_ZH_TERMS) # <<>>
  /\ Len(tokenize_v2(corpus[1].messages[2].body, DOMAIN_ZH_TERMS)) >= 3
  /\ items[1].cluster_label = INVESTING_LABEL

ETF_TERM == Str("ETF")

INVESTING_TERM == <<"u6295", "u8d44">>

\* C9 as claimed: in Scenario A the keyword list of the conversation holds
\* "ETF" and the alias-normalized form of "investing".
C9_ScenarioAKeywords ==
  (pc = "done" /\ ScenarioA)
    => {ETF_TERM, INVESTING_TERM} \subseteq Range(items[1].keywords)

\* C9 as amended: in Scenario A the term counts of the conversation hold
\* "ETF" and the alias-normalized form of "investing", and its keyword list
\* is empty, as no term of a one-conversation corpus occurs in 2
\* conversations.
C9_ScenarioATermsOnly ==
  (pc = "done" /\ ScenarioA)
    => /\ {ETF_TERM, INVESTING_TERM} \subseteq DOMAIN doc_term_counts[1].n
       /\ items[1].keywords = <<>>

\* Scenario A has run to the end and the two terms were counted
C9_Witness ==
  /\ pc = "done"
  /\ ScenarioA
  /\ doc_term_counts[1].n[ETF_TERM] >= 1
  /\ doc_term_counts[1].n[INVESTING_TERM] >= 1
  /\ items[1].cluster_label # None

\* the set of terms of the token stream of each conversation
TokenStreams ==
  AsTuple([i \in DOMAIN term_texts |-> Range(tokenize_v2(term_texts[i], zh_vocab))])

\* the conversations whose token stream holds the term at least once
StreamsWith(streams, t) == {i \in DOMAIN streams : t \in streams[i]}

\* Scenario C: 10 conversations, 3 of which hold DEBUG_TERM
ScenarioC(streams) ==
  /\ Len(corpus) = 10
  /\ Cardinality(StreamsWith(streams, DEBUG_TERM)) = 3

\* C11: once pass 1 is through, the document frequency of every term is the
\* number of conversations whose token stream holds it at least once, no
\* other term has an entry, and in Scenario C, 10 conversations 3 of which
\* hold DEBUG_TERM, its document frequency is 3 and it is eligible as a
\* keyword.
C11_DocumentFrequency ==
  PassTwoBegun =>
     \E streams \in {TokenStreams} :
        /\ DOMAIN doc_freq.n = UNION Range(streams)
        /\ \A t \in DOMAIN doc_freq.n :
              doc_freq.n[t] = Cardinality(StreamsWith(streams, t))
        /\ ScenarioC(streams) =>
              /\ CounterGet(doc_freq, DEBUG_TERM) = 3
              /\ total_docs = 10
              /\ is_good_keyword(DEBUG_TERM, doc_freq, total_docs)

\* Scenario C is through pass 1, and DEBUG_TERM occurs more than once in a
\* conversation
C11_Witness ==
  /\ PassTwoBegun
  /\ ScenarioC(TokenStreams)
  /\ \E d \in DOMAIN doc_term_counts : CounterGet(doc_term_counts[d], DEBUG_TERM) >= 2
  /\ CounterGet(doc_freq, DEBUG_TERM) = 3

\* the outputs are written
Written == pc = "written"

\* C14: when the run counted no usable user message, the report is written
\* all the same: its summary, strengths, gaps, quotes, boundaries and both
\* trend lists are empty and its method is the text that says so, whatever
\* the replies and the boundary quotes collected.
C14_EmptyReport ==
  (Written /\ interaction_totals.user_messages = 0) =>
     /\ report.summary = <<>>
     /\ report.strengths = <<>>
     /\ report.gaps = <<>>
     /\ report.quotes = <<>>
     /\ report.boundaries = <<>>
     /\ report.cluster_trends.improving = <<>>
     /\ report.cluster_trends.needs_work = <<>>
     /\ report.method = NO_USER_METHOD
     /\ report.method # <<>>

\* a run of two conversations is through: replies were counted and a
\* boundary quote was collected, no user message was
C14_Witness ==
  /\ Written
  /\ Len(items) = 2
  /\ interaction_totals.user_messages = 0
  /\ interaction_totals.assistant_messages >= 2
  /\ boundary_quotes # <<>>
  /\ report.method = NO_USER_METHOD

\* the rows read so far whose file does not exist
MissingRows == {i \in DOMAIN items : ~corpus[i].exists}

\* C15: a row whose file does not exist is read with no messages (it leaves
\* no record, and its text for terms is its title alone), it has its record
\* in the index, at its place, and that record shows 0 messages.
C15_MissingFile ==
  \A i \in MissingRows :
     /\ items[i].file = corpus[i].file
     /\ items[i].file \notin DOMAIN interaction_records
     /\ term_texts[i] = strip_artifact_lines(corpus[i].title \o <<"\n">>)
     /\ items[i].messages = 0

SmallCorpus == Len(corpus) <= 1

\* a rate of the summary: a fraction between 0 and 1 with a divisor of 1 or more
IsRate(r) == r.d >= 1 /\ 0 <= r.n /\ r.n <= r.d

\* the tables of a run over at most one conversation, once pass 1 is
\* through: the floor of 1 under total_docs, a vocabulary of the allowlist
\* alone, an IDF of 1 for every term
SmallTables ==
  /\ total_docs = 1
  /\ zh_vocab = DOMAIN_ZH_TERMS
  /\ DOMAIN idf = DOMAIN doc_freq.n
  /\ \A t \in DOMAIN idf : doc_freq.n[t] = 1 /\ idf[t] = ONE_1E4

\* what such a run writes: a record for every row, no keyword through the
\* gate, a topic by rule or the fallback, and an interaction report that is
\* empty or holds rates with divisors of 1 or more
SmallOutputs ==
  /\ Len(items) = Len(corpus)
  /\ \A i \in DOMAIN items :
        /\ items[i].keywords = <<>>
        /\ items[i].cluster_label
              \in {FALLBACK_LABEL} \cup {TOPIC_RULES[k].label : k \in DOMAIN TOPIC_RULES}
  /\ insights.top_keywords = <<>>
  /\ Len(insights.clusters) = Len(items)
  /\ search.manifest.total = Len(corpus)
  /\ \/ report.summary = <<>> /\ interaction_totals.user_messages = 0
     \/ /\ interaction_totals.user_messages >= 1
        /\ \A rate \in {"clarity_avg", "constraint_rate", "context_rate",
                          "feedback_rate", "iteration_rate", "clarification_rate"} :
              IsRate(report.summary[rate])
        /\ report.summary.avg_user_chars.d >= 1
        /\ report.summary.avg_turns.d >= 1

\* C16: in a run of build_index over a manifest of no conversation or of
\* one conversation the vocabulary, the IDF table, the keyword gate, the
\* topic fallback and the rates of the report are computed over divisors of
\* 1 or more, and the outputs written are those of such a corpus.
C16_SmallCorpusCompletes ==
  SmallCorpus =>
    /\ PassTwoBegun => SmallTables
    /\ Written => SmallOutputs

\* the run over one conversation with a question and no reply is through:
\* the rate of clarifying replies has no reply to divide by
C16_Witness ==
  /\ Written
  /\ Len(corpus) = 1
  /\ interaction_totals.user_messages = 1
  /\ interaction_totals.assistant_messages = 0
  /\ report.summary.clarification_rate = Frac(0, 1)
  /\ SmallTables
  /\ SmallOutputs

\* the entries of the shards written, one shard after the other
ShardEntries == Flatten(AsTuple([k \in DOMAIN search.files |-> search.files[k].items]))

RECURSIVE SumCounts(_)
SumCounts(shards) ==
  IF shards = <<>> THEN 0 ELSE Head(shards).count + SumCounts(Tail(shards))

\* the shards written hold the search entries in their order, each entry
\* once; no shard is empty; with a shard_size of 1 or more every shard but
\* the last holds shard_size entries and the last holds no more; the
\* manifest names the shards in the order written, with their counts, which
\* add up to its total, the number of conversations
ShardsPartition ==
  /\ ShardEntries = search_entries
  /\ \A k \in DOMAIN search.files : search.files[k].items # <<>>
  /\ search.shard_size >= 1 =>
        \A k \in DOMAIN search.files :
           /\ Len(search.files[k].items) <= search.shard_size
           /\ k < Len(search.files) => Len(search.files[k].items) = search.shard_size
  /\ Len(search.manifest.shards) = Len(search.files)
  /\ \A k \in DOMAIN search.files :
        /\ search.manifest.shards[k].file = search.files[k].file
        /\ search.manifest.shards[k].count = Len(search.files[k].items)
        /\ \A j \in 1..(k - 1) : StrLess(search.files[j].file, search.files[k].file)
  /\ SumCounts(search.manifest.shards) = search.manifest.total
  /\ search.manifest.total = Len(corpus)

\* C17 as stated: the shards partition the entries in order, and a
\* shard_size of 0 or less gives a single shard.
C17_Shards ==
  Written =>
    /\ ShardsPartition
    /\ search.shard_size <= 0 => Len(search.files) = 1

\* C17, amended: a shard_size of 0 or less gives a single shard if there is
\* an entry, and no shard if there is none.
C17_ShardsOfEntries ==
  Written =>
    /\ ShardsPartition
    /\ search.shard_size <= 0 =>
          Len(search.files) = IF search_entries = <<>> THEN 0 ELSE 1

\* shards are written of which the last is not full
C17_Witness ==
  /\ Written
  /\ Len(search.files) >= 3
  /\ Len(search.files[Len(search.files)].items) < search.shard_size

\* no conversation, a shard_size of 0: no shard is written
C17_NoShardWitness ==
  /\ Written
  /\ search.shard_size <= 0
  /\ search.files = <<>>

(***************************************************************************)
(* build_zh_vocab on its own.                                              *)
(***************************************************************************)
MaxVocabDocs == 7

COFFEE_BEAN == <<"u5496", "u5561", "u8c46">>

\* the texts the corpora of SpecVocab are made of: a short run; a run that
\* starts with a term of the allowlist; a run of more than MAX_ZH_RUN
\* characters with the short run at its end; a run that starts with a
\* stopword; a text without Chinese
VocabTexts ==
  << Str("ok ") \o COFFEE_BEAN,
     <<"u6295", "u8d44", "u5496", "u5561">>,
     [i \in 1..(MAX_ZH_RUN - 1) |-> "u54c8"] \o COFFEE_BEAN,
     <<"u6211", "u4eec", "u559d", "u8336">>,
     Str("x") >>

Repeat(text, n) == AsTuple([i \in 1..n |-> text])

\* cnt[k] times text k, for each k
TextsOf(cnt) == Flatten(AsTuple([k \in 1..Len(VocabTexts) |-> Repeat(VocabTexts[k], cnt[k])]))

\* the corpora around the corpus size at which min_df changes
LargeVocabCorpora ==
  { Repeat(VocabTexts[1], k) \o Repeat(VocabTexts[5], n - k) :
      n \in {SMALL_CORPUS_DOCS - 1, SMALL_CORPUS_DOCS}, k \in {2, 3, 27, 28, 29} }

VocabCorpora ==
  {TextsOf(<<p, q, l, s, Max(0, n - p - q - l - s)>>) :
     p \in 0..MaxVocabDocs, q \in 0..1, l \in 0..1, s \in 0..1, n \in 0..MaxVocabDocs}
    \cup LargeVocabCorpora

InitVocab ==
  /\ term_texts \in VocabCorpora
  /\ corpus = <<>>
  /\ items = <<>>
  /\ interaction_records = <<>>
  /\ interaction_totals = ZeroTotals
  /\ quote_buckets = EmptyBuckets
  /\ boundary_quotes = <<>>
  /\ zh_vocab = {}
  /\ doc_term_counts = <<>>
  /\ doc_freq = EmptyCounter
  /\ total_docs = 0
  /\ idf = <<>>
  /\ insights = None
  /\ pc = "vocab"
  /\ tokenized = <<>>
  /\ IdlePush
  /\ IdleMsg
  /\ IdleRuns
  /\ IdleOut
  /\ IdleCall

\* zh_vocab = build_zh_vocab(term_texts)
BuildVocabOnly ==
  /\ pc = "vocab"
  /\ zh_vocab' = build_zh_vocab(term_texts)
  /\ pc' = "vocab_done"
  /\ UNCHANGED <<corpus, items, term_texts, interaction_records, interaction_totals,
                 quote_buckets, boundary_quotes, doc_term_counts, doc_freq,
                 total_docs, idf, insights, tokenized, pushVars, msgVars, runVars, outVars, callVars>>

NextVocab == BuildVocabOnly

SpecVocab == InitVocab /\ [][NextVocab]_vars

\* min_df for the corpus at hand
MinDf == IF Max(1, Len(term_texts)) < SMALL_CORPUS_DOCS THEN 2 ELSE 3

\* in how many texts the term occurs
OccurrenceDf(t) == Cardinality({i \in DOMAIN term_texts : Contains(term_texts[i], t)})

\* in how many texts the term occurs within the first MAX_ZH_RUN characters
\* of a run of Chinese characters
CappedRunDf(t) ==
  Cardinality({i \in DOMAIN term_texts :
                 \E r \in Range(ZhFindAll(term_texts[i])) :
                    Contains(SubSeq(r, 1, Min(Len(r), MAX_ZH_RUN)), t)})

\* C4 as claimed: every entry of the vocabulary has 2 to 4 characters and
\* occurs in at least min_df and in at most 35% of the texts, and every term
\* of the allowlist is in the vocabulary.
C4_VocabularyBounds ==
  pc = "vocab_done" =>
     /\ \A t \in zh_vocab :
           /\ Len(t) \in 2..4
           /\ OccurrenceDf(t) >= MinDf
           /\ 100 * OccurrenceDf(t) <= 35 * Max(1, Len(term_texts))
     /\ DOMAIN_ZH_TERMS \subseteq zh_vocab

\* C4 as amended: every entry of the vocabulary that is no term of the
\* allowlist has 2 to 4 characters and occurs, within the first 180
\* characters of a run of Chinese characters, in at least min_df and in at
\* most 35% of the texts; and every term of the allowlist is in the
\* vocabulary.
C4_BootstrappedBounds ==
  pc = "vocab_done" =>
     /\ \A t \in zh_vocab \ DOMAIN_ZH_TERMS :
           /\ Len(t) \in 2..4
           /\ CappedRunDf(t) >= MinDf
           /\ 100 * CappedRunDf(t) <= 35 * Max(1, Len(term_texts))
     /\ DOMAIN_ZH_TERMS \subseteq zh_vocab

\* the vocabulary holds a bootstrapped entry, an n-gram that occurs in too
\* many texts was kept out, and so was one that occurs in too few
C4_Witness ==
  /\ pc = "vocab_done"
  /\ zh_vocab # DOMAIN_ZH_TERMS
  /\ \E i \in DOMAIN term_texts : \E t \in SeenNgrams(term_texts[i]) :
        t \notin zh_vocab /\ 100 * CappedRunDf(t) > 35 * Max(1, Len(term_texts))
  /\ \E i \in DOMAIN term_texts : \E t \in SeenNgrams(term_texts[i]) :
        t \notin zh_vocab /\ CappedRunDf(t) < MinDf

(***************************************************************************)
(* analyze_conversation on conversations with tool-call messages: the row  *)
(* loop of build_index over a first conversation and a second one made of  *)
(* plain messages and tool-call payloads.                                  *)
(***************************************************************************)
MaxToolMsgs == 2

TOOL_QUERY == Str("{\"search_query\": \"why must?\"}")

TOOL_PATH == Str("{\"path\": \"I cannot browse\"}")

\* a fenced block: the fence with its language tag, the payload, the fence
Fenced(lang, payload) == CODE_FENCE \o Str(lang) \o <<"\n">> \o payload \o <<"\n">> \o CODE_FENCE

\* the payloads of tool calls: bare on one line, bare over several lines,
\* fenced without a language, fenced as "unknown", fenced as "json"
TOOL_BODIES ==
  { TOOL_QUERY,
    TOOL_PATH,
    Str("{") \o <<"\n">> \o Str("\"search_query\": \"why must?\"") \o <<"\n">> \o Str("}"),
    Fenced("", TOOL_QUERY),
    Fenced("unknown", TOOL_PATH),
    Fenced("json", TOOL_QUERY) }

PLAIN_MESSAGES ==
  {Message("user", "why not?"), Message("user", "ok"), Message("assistant", "I cannot browse")}

ConvMessages ==
  {[role |-> Str(r), body |-> b] : r \in {"user", "assistant"}, b \in TOOL_BODIES}
    \cup PLAIN_MESSAGES

RECURSIVE ConvSeqs(_)
ConvSeqs(n) ==
  IF n = 0 THEN {<<>>}
  ELSE ConvSeqs(n - 1)
         \cup {Append(q, m) : q \in {x \in ConvSeqs(n - 1) : Len(x) = n - 1},
                              m \in ConvMessages}

\* the etf conversation, then a conversation of up to MaxToolMsgs messages
ConvCorpora ==
  {<< RowOf("etf", 1),
      [file |-> FileOf(2), title |-> Str("Tools"), created_utc |-> <<>>,
       count |-> Len(q), exists |-> TRUE, messages |-> q] >> :
     q \in ConvSeqs(MaxToolMsgs)}

InitConv ==
  /\ \E c \in ConvCorpora : StartOf(c)
  /\ IdlePush
  /\ IdleMsg
  /\ IdleRuns
  /\ IdleOut
  /\ IdleCall

NextConv == ReadRow

SpecConv == InitConv /\ [][NextConv]_vars

\* the messages of the row that are no tool-call payloads
PlainMessages(messages) ==
  LET Plain(m) == m.body \notin TOOL_BODIES
  IN SelectSeq(messages, Plain)

MessagesOfRole(messages, role) ==
  Cardinality({i \in DOMAIN messages : messages[i].role = Str(role)})

\* C12: a row's tool-call payloads, bare or fenced, of either role, add
\* nothing: the message counts grow by the number of the row's other
\* messages of each role, and the totals, the quote pools, the boundary pool
\* and the records are what analyze_conversation leaves for the row's other
\* messages alone.
C12_ToolCallsExcluded ==
  [][Len(items') = Len(items) + 1 =>
       \E row \in {corpus[Len(items) + 1]} :
       \E plain \in {PlainMessages(row.messages)} :
       \E a \in {analyze_conversation(plain, row.file, row.created_utc,
                                     interaction_totals, quote_buckets, boundary_quotes)} :
          /\ interaction_totals'.user_messages
               = interaction_totals.user_messages + MessagesOfRole(plain, "user")
          /\ interaction_totals'.assistant_messages
               = interaction_totals.assistant_messages + MessagesOfRole(plain, "assistant")
          /\ interaction_totals' = a.totals
          /\ quote_buckets' = a.quote_buckets
          /\ boundary_quotes' = a.boundary_quotes
          /\ (plain = <<>>) = (row.file \notin DOMAIN interaction_records')
          /\ plain # <<>> => interaction_records'[row.file] = a.record]_vars

\* a conversation of a tool-call payload of each role and nothing else has
\* been read, and it left the totals of the first conversation as they were
C12_Witness ==
  /\ Len(items) = 2
  /\ Len(corpus[2].messages) = 2
  /\ corpus[2].messages[1].role # corpus[2].messages[2].role
  /\ \A i \in 1..2 : corpus[2].messages[i].body \in TOOL_BODIES
  /\ corpus[2].messages[1].body = Fenced("", TOOL_QUERY)
  /\ interaction_totals.conversations = 1
  /\ DOMAIN interaction_records = {corpus[1].file}

(***************************************************************************)
(* Two runs of build_index over the same manifest and files.  The order in *)
(* which a run iterates over a set is open: each run takes any order for   *)
(* each set seen of build_zh_vocab.  The other loop over a set, over the   *)
(* triggers of a topic rule, adds up integers.                             *)
(***************************************************************************)
RunDocs == 6

MaxBeans == 2

BEAN ==
  [title |-> Str("Bean"),
   messages |-> << [role |-> Str("user"), body |-> COFFEE_BEAN \o Str(" grinder tips")],
                   Message("assistant", "Grind it fresh") >>]

RunConversations == <<Conversations["etf"], Conversations["garden"], BEAN>>

RunCorpusOf(cnt) ==
  AsTuple([i \in 1..(cnt[1] + cnt[2] + cnt[3]) |->
     LET c == RunConversations[IF i <= cnt[1] THEN 1
                               ELSE IF i <= cnt[1] + cnt[2] THEN 2 ELSE 3]
     IN [file |-> <<"f", DIGITS[i + 1]>>, title |-> c.title,
         created_utc |-> <<>>, count |-> Len(c.messages), exists |-> TRUE,
         messages |-> c.messages]])

RunCorpora ==
  {RunCorpusOf(cnt) :
     cnt \in {c \in [1..3 -> 0..RunDocs] :
                c[1] + c[2] + c[3] <= RunDocs /\ c[3] <= MaxBeans}}

\* what the three output files are written from
Outputs ==
  [items |-> items, insights |-> insights,
   interaction_records |-> interaction_records,
   interaction_totals |-> interaction_totals,
   quote_buckets |-> quote_buckets, boundary_quotes |-> boundary_quotes]

InitRuns ==
  /\ \E c \in RunCorpora : StartOf(c)
  /\ IdlePush
  /\ IdleMsg
  /\ run = 1
  /\ first_run = None
  /\ IdleOut
  /\ IdleCall

\* the orders in which the elements of the set S can come
Orders(S) == {f \in [1..Cardinality(S) -> S] : \A x \in S : \E i \in DOMAIN f : f[i] = x}

\* one order for each of the first k sets
RECURSIVE IterationOrders(_, _)
IterationOrders(sets, k) ==
  IF k = 0 THEN {<<>>}
  ELSE {Append(o, AsTuple(s)) : o \in IterationOrders(sets, k - 1), s \in Orders(sets[k])}

\* zh_vocab = build_zh_vocab(term_texts), for any order of "for term in seen"
BuildZhVocabAnyOrder ==
  /\ pc = "rows"
  /\ Len(items) = Len(corpus)
  /\ \E orders \in IterationOrders(AsTuple([i \in 1..Len(term_texts) |->
                                              SeenNgrams(term_texts[i])]),
                                   Len(term_texts)) :
        zh_vocab' = VocabOfCounter(ZhDf(orders), Len(term_texts))
  /\ doc_term_counts' = <<>>
  /\ doc_freq' = EmptyCounter
  /\ pc' = "tokenize"
  /\ UNCHANGED <<corpus, items, term_texts, interaction_records, interaction_totals,
                 quote_buckets, boundary_quotes, total_docs, idf, insights, tokenized,
                 pushVars, msgVars, runVars, outVars, callVars>>

\* the first run is over; the second starts from the same manifest and files
SecondRun ==
  /\ pc = "done"
  /\ run = 1
  /\ first_run' = Outputs
  /\ run' = 2
  /\ items' = <<>>
  /\ term_texts' = <<>>
  /\ interaction_records' = <<>>
  /\ interaction_totals' = ZeroTotals
  /\ quote_buckets' = EmptyBuckets
  /\ boundary_quotes' = <<>>
  /\ zh_vocab' = {}
  /\ doc_term_counts' = <<>>
  /\ doc_freq' = EmptyCounter
  /\ total_docs' = 0
  /\ idf' = <<>>
  /\ insights' = None
  /\ pc' = "rows"
  /\ tokenized' = [i \in DOMAIN corpus |-> 0]
  /\ search_entries' = <<>>
  /\ UNCHANGED <<corpus, search, report, pushVars, msgVars, callVars>>

NextRuns ==
  \/ ReadRow
  \/ BuildZhVocabAnyOrder
  \/ TokenizeDoc
  \/ ComputeIdf
  \/ ScoreDoc
  \/ BuildInsights
  \/ SecondRun

SpecRuns == InitRuns /\ [][NextRuns]_vars

TREND_DATES ==
  << Str("2023-12-31 23:59:59Z"), Str("2024-01-01 00:00:00Z"),
     Str("2024-01-01 00:00:01Z"), Str("2024-01-01 00:01:00Z"),
     Str("2024-01-01 01:00:00Z"), Str("2024-01-02 00:00:00Z"),
     Str("2024-02-01 00:00:00Z"), Str("2024-02-29 12:00:00Z"),
     Str("2025-01-01 00:00:00Z") >>

\* created_utc values that parse_datetime turns down
BAD_DATES ==
  << <<>>, Str("unknown"), Str("2023-02-29 12:00:00Z"), Str("2024-13-01 00:00:00Z"),
     Str("2024-01-01") >>

\* the signal hits of the conversations of a topic, in the order of their
\* dates; a conversation has 2 user messages, so its score is (hits + 2) / 10
PROFILES ==
  [up8 |-> <<1, 1, 1, 1, 3, 3, 3, 3>>,
   up7 |-> <<1, 1, 1, 3, 3, 3, 3>>,
   big6 |-> <<0, 0, 0, 4, 4, 4>>,
   edge8 |-> <<1, 1, 1, 1, 1, 1, 2, 2>>,
   flat6 |-> <<2, 2, 2, 2, 2, 2>>,
   down6 |-> <<3, 3, 3, 1, 1, 1>>,
   downedge8 |-> <<2, 2, 1, 1, 1, 1, 1, 1>>,
   short5 |-> <<0, 0, 4, 4, 4>>]

ProfileNames == DOMAIN PROFILES

\* the record of a conversation with 2 user messages and the given hits
RecordOfHits(file, created_utc, hits) ==
  [file |-> file, created_utc |-> created_utc, user_messages |-> 2,
   assistant_messages |-> 1,
   clear_hits |-> Min(hits, 2), constraint_hits |-> Min(Max(hits - 2, 0), 2),
   context_hits |-> 0, feedback_hits |-> 0, iteration |-> 1]

\* the conversations of the topics, topic by topic: hits, date and label of
\* each; a topic in reverse is listed latest conversation first
TopicRows(topics, reverse) ==
  Flatten(AsTuple([j \in DOMAIN topics |->
    LET profile == PROFILES[topics[j]]
    IN AsTuple([m \in DOMAIN profile |->
         LET at == IF reverse THEN Len(profile) + 1 - m ELSE m
         IN [hits |-> profile[at], created_utc |-> TREND_DATES[at],
             cluster_label |-> TOPIC_RULES[j].label, scored |-> TRUE]])]))

\* conversations that give no point: without a date, or without a record;
\* one with a date and a record but no label
ExtraRows ==
  AsTuple([k \in DOMAIN BAD_DATES |->
     [hits |-> 4, created_utc |-> BAD_DATES[k],
      cluster_label |-> TOPIC_RULES[1].label, scored |-> TRUE]])
    \o << [hits |-> 4, created_utc |-> TREND_DATES[9],
           cluster_label |-> TOPIC_RULES[1].label, scored |-> FALSE],
          [hits |-> 4, created_utc |-> TREND_DATES[9],
           cluster_label |-> None, scored |-> TRUE] >>

TrendRows(in) ==
  TopicRows(in.topics, in.reverse) \o (IF in.extras THEN ExtraRows ELSE <<>>)

TrendItems(rows) ==
  AsTuple([i \in DOMAIN rows |->
     [title |-> Str("Chat"), created_utc |-> rows[i].created_utc, messages |-> 3,
      file |-> FileOf(i), keywords |-> <<>>, cluster_label |-> rows[i].cluster_label]])

\* interaction_records: the record of every scored conversation, by file
TrendRecords(rows) ==
  [f \in {FileOf(i) : i \in {k \in DOMAIN rows : rows[k].scored}} |->
     LET i == CHOOSE k \in DOMAIN rows : FileOf(k) = f
     IN RecordOfHits(f, rows[i].created_utc, rows[i].hits)]

RECURSIVE SumField(_, _)
SumField(rows, field) ==
  IF rows = <<>> THEN 0 ELSE Head(rows)[field] + SumField(Tail(rows), field)

\* the totals that analyze_conversation accumulates over the scored
\* conversations, each with 2 user messages and 1 reply of 40 characters
TotalsOfRows(rows) ==
  LET IsScored(r) == r.scored
      scored == SelectSeq(rows, IsScored)
      clear == AsTuple([i \in DOMAIN scored |-> [n |-> Min(scored[i].hits, 2)]])
  IN [conversations |-> Len(scored),
      user_messages |-> 2 * Len(scored),
      assistant_messages |-> Len(scored),
      clarity_hits |-> SumField(clear, "n"),
      constraint_hits |-> SumField(scored, "hits") - SumField(clear, "n"),
      context_hits |-> 0,
      feedback_hits |-> 0,
      clarify_hits |-> 0,
      iteration_conversations |-> Len(scored),
      user_chars |-> 80 * Len(scored),
      assistant_chars |-> 40 * Len(scored)]

\* longer lists of topics: lists that are full, and mixed ones
TopicLists ==
  { <<"up8", "up8", "up8", "up8", "up8">>,
    <<"big6", "big6", "big6", "up7", "up8">>,
    <<"big6", "up7", "up8", "big6", "big6">>,
    <<"down6", "down6", "down6", "down6", "down6", "up8">>,
    <<"up8", "down6", "short5">>,
    <<"short5", "up8", "down6">>,
    <<"edge8", "downedge8", "edge8", "flat6">> }

TrendInputs ==
  [topics : {<<a>> : a \in ProfileNames}
              \cup {<<a, b>> : a \in ProfileNames, b \in ProfileNames}
              \cup TopicLists,
   reverse : BOOLEAN, extras : BOOLEAN]

\* totals of 100 user messages in 10 conversations with 10 replies: every
\* rate below, at and above its thresholds
RoundTotals ==
  { [conversations |-> 10, user_messages |-> 100, assistant_messages |-> 10,
     clarity_hits |-> cl, constraint_hits |-> cs, context_hits |-> cx,
     feedback_hits |-> fb, clarify_hits |-> cf, iteration_conversations |-> it,
     user_chars |-> 4000, assistant_chars |-> 400] :
       cl \in {40, 45, 55, 60}, cs \in {20, 25, 30, 35}, cx \in {0, 30, 50},
       fb \in {5, 10, 12}, cf \in {1, 2, 5}, it \in {2, 3, 4, 8} }

\* totals whose rates differ by less than a thousandth
CloseTotals ==
  { [conversations |-> 10, user_messages |-> 3001, assistant_messages |-> 3001,
     clarity_hits |-> cl, constraint_hits |-> 999, context_hits |-> 1000,
     feedback_hits |-> fb, clarify_hits |-> cf, iteration_conversations |-> 3,
     user_chars |-> 120040, assistant_chars |-> 120040] :
       cl \in {1000, 1350, 1351, 1700}, fb \in {299, 300, 1001}, cf \in {599, 601, 602} }

ReportTotals == RoundTotals \cup CloseTotals

\* the state in which build_interaction_report is called
ReportCall(its, records, totals) ==
  /\ items = its
  /\ interaction_records = records
  /\ interaction_totals = totals
  /\ quote_buckets = EmptyBuckets
  /\ boundary_quotes = <<>>
  /\ corpus = <<>>
  /\ term_texts = <<>>
  /\ zh_vocab = {}
  /\ doc_term_counts = <<>>
  /\ doc_freq = EmptyCounter
  /\ total_docs = 0
  /\ idf = <<>>
  /\ insights = None
  /\ pc = "report"
  /\ tokenized = <<>>

InitReport ==
  /\ \/ \E in \in TrendInputs : \E rows \in {TrendRows(in)} :
          ReportCall(TrendItems(rows), TrendRecords(rows), TotalsOfRows(rows))
     \/ \E totals \in ReportTotals : ReportCall(<<>>, <<>>, totals)
  /\ IdlePush
  /\ IdleMsg
  /\ IdleRuns
  /\ IdleOut
  /\ IdleCall

\* the call of build_interaction_report
BuildInteractionReport ==
  /\ pc = "report"
  /\ \E passed \in SUBSET EdgeClusters(items, interaction_records) :
       report' = build_interaction_report(items, interaction_records,
                                          interaction_totals, quote_buckets,
                                          boundary_quotes, passed)
  /\ quote_buckets' = IF interaction_totals.user_messages <= 0 THEN quote_buckets
                       ELSE SortedBuckets(quote_buckets)
  /\ boundary_quotes' = IF interaction_totals.user_messages <= 0 THEN boundary_quotes
                         ELSE SortQuotes(boundary_quotes)
  /\ pc' = "reported"
  /\ UNCHANGED <<corpus, items, term_texts, interaction_records, interaction_totals,
                 zh_vocab, doc_term_counts, doc_freq, total_docs, idf, insights,
                 tokenized, search_entries, search, pushVars, msgVars, runVars, callVars>>

NextReport == BuildInteractionReport

SpecReport == InitReport /\ [][NextReport]_vars

\* the topic a conversation is counted under
TopicOf(i) ==
  IF items[i].cluster_label \in {None, <<>>} THEN FALLBACK_LABEL
  ELSE items[i].cluster_label

\* the conversations of a topic that are both dated and scored
TrendPoints(label) ==
  {i \in DOMAIN items :
     /\ TopicOf(i) = label
     /\ items[i].file \in DOMAIN interaction_records
     /\ parse_datetime(items[i].created_utc) # None}

\* the earlier half of them by creation date, the midpoint rounded down
EarlierHalf(label) ==
  LET points == TrendPoints(label)
      Earlier(i) == {j \in points : DateBefore(parse_datetime(items[j].created_utc),
                                               parse_datetime(items[i].created_utc))}
  IN {i \in points : Cardinality(Earlier(i)) < Cardinality(points) \div 2}

LaterHalf(label) == TrendPoints(label) \ EarlierHalf(label)

\* the sum of the scores of a set of conversations
RECURSIVE ScoreSum(_)
ScoreSum(S) ==
  IF S = {} THEN Frac(0, 1)
  ELSE LET i == CHOOSE k \in S : TRUE
       IN FracAdd(ScoreOf(interaction_records[items[i].file]), ScoreSum(S \ {i}))

\* the mean score of a non-empty set of conversations
ScoreMean(S) == LET total == ScoreSum(S) IN Frac(total.n, total.d * Cardinality(S))

\* the mean of the later half minus the mean of the earlier half
TrendDelta(label) == FracSub(ScoreMean(LaterHalf(label)), ScoreMean(EarlierHalf(label)))

TopicLabels == {TopicOf(i) : i \in DOMAIN items}

Listed(entries) == {entries[k].label : k \in DOMAIN entries}

\* a topic of 8 dated conversations with means 0.3 and 0.5
ScenarioB(label) ==
  /\ Cardinality(TrendPoints(label)) = 8
  /\ \A i \in TrendPoints(label) : items[i].file \in DOMAIN interaction_records
  /\ ScoreMean(EarlierHalf(label)) = Frac(3, 10)
  /\ ScoreMean(LaterHalf(label)) = Frac(5, 10)

\* the general part of C13: what being listed implies, and the sizes
TrendListsSound(trends) ==
  /\ \A label \in Listed(trends.improving) :
        /\ Cardinality(TrendPoints(label)) >= MIN_TREND_POINTS
        /\ FracAtLeast(TrendDelta(label), 5, 100)
  /\ \A label \in Listed(trends.needs_work) :
        /\ Cardinality(TrendPoints(label)) >= MIN_TREND_POINTS
        /\ FracAtLeast(FracSub(Frac(0, 1), TrendDelta(label)), 5, 100)
  /\ \A label \in TopicLabels :
        Cardinality(TrendPoints(label)) < MIN_TREND_POINTS
          => label \notin Listed(trends.improving) \cup Listed(trends.needs_work)
  /\ Listed(trends.improving) \cap Listed(trends.needs_work) = {}
  /\ Len(trends.improving) <= 4
  /\ Len(trends.needs_work) <= 4

TrendsComputed == pc = "reported" /\ report.method = METHOD

\* C13 as stated: a listed topic has at least 6 dated and scored
\* conversations and a difference of the half means of at least 0.05
\* (improving) or at most -0.05 (needs work), a topic with fewer is in
\* neither list, no topic is in both, each list has at most 4 entries, and
\* every topic of 8 dated conversations with half means 0.3 and 0.5 is in
\* improving with delta 0.2.
C13_ClusterTrends ==
  TrendsComputed =>
    /\ TrendListsSound(report.cluster_trends)
    /\ \A label \in TopicLabels :
          ScenarioB(label) =>
            \E k \in DOMAIN report.cluster_trends.improving :
               /\ report.cluster_trends.improving[k].label = label
               /\ report.cluster_trends.improving[k].delta = 200

\* C13, amended: the same, but a topic of 8 dated conversations with half
\* means 0.3 and 0.5 is in improving with delta 0.2 unless improving already
\* holds 4 topics whose delta is at least 0.2.
C13_ClusterTrendsWithinLimit ==
  TrendsComputed =>
    /\ TrendListsSound(report.cluster_trends)
    /\ \A label \in TopicLabels :
          ScenarioB(label) =>
            \/ \E k \in DOMAIN report.cluster_trends.improving :
                  /\ report.cluster_trends.improving[k].label = label
                  /\ report.cluster_trends.improving[k].delta = 200
            \/ /\ Len(report.cluster_trends.improving) = TREND_LIMIT
               /\ \A k \in DOMAIN report.cluster_trends.improving :
                     report.cluster_trends.improving[k].delta >= 200

\* the trends are computed: a topic of Scenario B is listed as improving
\* and another is left out of the full list, a topic is listed as needing
\* work, and a topic of 6 conversations of which only 5 are dated and scored
\* is in neither list
C13_Witness ==
  /\ TrendsComputed
  /\ \E label \in Listed(report.cluster_trends.improving) : ScenarioB(label)
  /\ report.cluster_trends.needs_work # <<>>
  /\ \E label \in TopicLabels :
        /\ Cardinality(TrendPoints(label)) < MIN_TREND_POINTS
        /\ Cardinality({i \in DOMAIN items : TopicOf(i) = label}) >= MIN_TREND_POINTS

\* a full list leaves a topic of Scenario B out
C13_FullListWitness ==
  /\ TrendsComputed
  /\ Len(report.cluster_trends.improving) = TREND_LIMIT
  /\ \E label \in TopicLabels \ Listed(report.cluster_trends.improving) : ScenarioB(label)

\* the rate of a signal over the totals the report is built from
RateOf(metric) ==
  LET t == interaction_totals
  IN CASE metric = "clarity_avg" -> Frac(t.clarity_hits, t.user_messages)
       [] metric = "constraint_rate" -> Frac(t.constraint_hits, t.user_messages)
       [] metric = "context_rate" -> Frac(t.context_hits, t.user_messages)
       [] metric = "feedback_rate" -> Frac(t.feedback_hits, t.user_messages)
       [] metric = "iteration_rate" -> Frac(t.iteration_conversations, Max(1, t.conversations))
       [] metric = "clarification_rate" -> Frac(t.clarify_hits, Max(1, t.assistant_messages))

\* the distance of a gap signal to its threshold, as a fraction
DistanceOf(c) ==
  IF c.reverse THEN FracSub(RateOf(c.metric), Frac(c.threshold, 100))
  ELSE FracSub(Frac(c.threshold, 100), RateOf(c.metric))

FracLess(a, b) == a.n * b.d < b.n * a.d

\* a and b in thousandths
ReportedLess(a, b) == Round3(a) < Round3(b)

\* the listed entries are at most 3 of the qualifying candidates, each once,
\* with the reported rate of its signal, in an order in which no entry is
\* Less than a later one, and no qualifying candidate that is left out is
\* greater than a listed one
TopOf(listed, candidates, Qualifies(_), Value(_), Less(_, _)) ==
  LET Cand(k) == CHOOSE c \in Range(candidates) : c.label = listed[k].label
      labels == {listed[k].label : k \in DOMAIN listed}
  IN /\ Len(listed) <= 3
     /\ Cardinality(labels) = Len(listed)
     /\ \A k \in DOMAIN listed :
          /\ \E c \in Range(candidates) : c.label = listed[k].label
          /\ Qualifies(Cand(k))
          /\ listed[k].metric = Round3(RateOf(Cand(k).metric))
     /\ \A k \in DOMAIN listed : \A j \in DOMAIN listed :
          k < j => ~Less(Value(Cand(k)), Value(Cand(j)))
     /\ \A c \in Range(candidates) :
          Qualifies(c) /\ c.label \notin labels =>
            \A k \in DOMAIN listed : ~Less(Value(Cand(k)), Value(c))

StrengthRate(c) == RateOf(c.metric)

Exceeds(c) == ~FracAtLeast(Frac(c.threshold, 100), RateOf(c.metric).n, RateOf(c.metric).d)

AtLeastThreshold(c) == FracAtLeast(RateOf(c.metric), c.threshold, 100)

\* a gap as stated: below the threshold, or above it for the reverse signal
GapAsStated(c) == IF c.reverse THEN Exceeds(c) ELSE ~AtLeastThreshold(c)

\* a gap: below the threshold, or at least the threshold for the reverse
\* signal
GapFromThreshold(c) == IF c.reverse THEN AtLeastThreshold(c) ELSE ~AtLeastThreshold(c)

\* C19 as stated: strengths are at most 3 signals whose rate exceeds the
\* threshold, in descending rate order, and no qualifying signal left out
\* has a higher rate than a listed one; gaps are at most 3 signals below the
\* threshold (above it, for the reverse signal), in descending distance to
\* the threshold, and no qualifying signal left out has a larger distance.
C19_StrengthsAndGaps ==
  TrendsComputed =>
    /\ TopOf(report.strengths, STRENGTH_CANDIDATES, Exceeds, StrengthRate, FracLess)
    /\ TopOf(report.gaps, GAP_CANDIDATES, GapAsStated, DistanceOf, FracLess)

\* C19, amended: a strength has a rate of at least its threshold, the reverse
\* gap signal a rate of at least its threshold, and rates and distances are
\* compared as reported, rounded to 3 decimals.
C19_StrengthsAndGapsAsReported ==
  TrendsComputed =>
    /\ TopOf(report.strengths, STRENGTH_CANDIDATES, AtLeastThreshold, StrengthRate,
             ReportedLess)
    /\ TopOf(report.gaps, GAP_CANDIDATES, GapFromThreshold, DistanceOf, ReportedLess)
    /\ \A k \in DOMAIN report.gaps :
         \E c \in Range(GAP_CANDIDATES) :
           c.label = report.gaps[k].label /\ report.gaps[k].delta = Round3(DistanceOf(c))

\* 3 strengths are listed out of table order, a qualifying signal is left
\* out, and a gap is listed
C19_Witness ==
  /\ TrendsComputed
  /\ Len(report.strengths) = 3
  /\ \E c \in Range(STRENGTH_CANDIDATES) :
       AtLeastThreshold(c) /\ \A k \in DOMAIN report.strengths : report.strengths[k].label # c.label
  /\ report.strengths[1].label = STRENGTH_CANDIDATES[5].label
  /\ report.gaps # <<>>

\* 3 gaps are listed, the reverse signal first, and a qualifying signal is
\* left out
C19_GapsWitness ==
  /\ TrendsComputed
  /\ Len(report.gaps) = 3
  /\ \E c \in Range(GAP_CANDIDATES) :
       GapFromThreshold(c) /\ \A k \in DOMAIN report.gaps : report.gaps[k].label # c.label
  /\ report.gaps[1].label = GAP_CANDIDATES[6].label

\* a strength is listed whose rate is its threshold
C19_AtThresholdWitness ==
  /\ TrendsComputed
  /\ \E k \in DOMAIN report.strengths : \E c \in Range(STRENGTH_CANDIDATES) :
       c.label = report.strengths[k].label /\ AtLeastThreshold(c) /\ ~Exceeds(c)

(***************************************************************************)
(* assign_topic_label on its own: the term counts of the document, its     *)
(* ranked keywords, the document frequencies and total_docs are drawn from *)
(* the families below.                                                     *)
(***************************************************************************)
MaxTermCount == 2

\* terms that are triggers: of the first rule, and of the second and the
\* last rule in two spellings, and of the second rule alone
TOPIC_TERMS == <<Str("ETF"), Str("GitHub"), Str("github"), Str("Python")>>

\* the Counter that holds terms[i] counts[i] times, without the zeros
CounterFrom(terms, counts) ==
  LET Held(i) == counts[i] > 0
      held == SelectSeq(Indices(Len(terms)), Held)
  IN [keys |-> AsTuple(Pick(terms, held)),
      n |-> [t \in {terms[i] : i \in Range(held)} |->
               counts[CHOOSE i \in Range(held) : terms[i] = t]]]

FALLBACK_TERMS == <<Str("tomato"), Str("garden"), Str("the")>>

\* ranked keyword lists: with a stop word and with an empty keyword ahead
KeywordLists ==
  { <<>>, <<FALLBACK_TERMS[1]>>, <<FALLBACK_TERMS[1], FALLBACK_TERMS[2]>>,
    <<FALLBACK_TERMS[2], FALLBACK_TERMS[1]>>, <<FALLBACK_TERMS[3], FALLBACK_TERMS[1]>>,
    << <<>>, FALLBACK_TERMS[2]>> }

\* values of total_docs on both sides of 100, and where 0.5% of it is 8,
\* 8.5 and 10
TopicTotals == {1, 10, 99, 100, 1600, 1700, 2000}

TopicDfs == {2, 3, 8, 9, 10}

\* the state in which assign_topic_label is called for a document
TopicCall(term_counts, keywords, df, total) ==
  /\ items = << [title |-> Str("Chat"), created_utc |-> <<>>, messages |-> 2,
                 file |-> FileOf(1), keywords |-> keywords, cluster_label |-> None] >>
  /\ doc_term_counts = <<term_counts>>
  /\ doc_freq = df
  /\ total_docs = total
  /\ interaction_records = <<>>
  /\ interaction_totals = ZeroTotals
  /\ quote_buckets = EmptyBuckets
  /\ boundary_quotes = <<>>
  /\ corpus = <<>>
  /\ term_texts = <<>>
  /\ zh_vocab = {}
  /\ idf = <<>>
  /\ insights = None
  /\ pc = "topic"
  /\ tokenized = <<>>

InitTopic ==
  /\ \/ \E counts \in [1..Len(TOPIC_TERMS) -> 0..MaxTermCount] :
          TopicCall(CounterFrom(TOPIC_TERMS, counts), <<FALLBACK_TERMS[1]>>,
                    CounterFrom(FALLBACK_TERMS, <<3, 3, 3>>), 10)
     \/ \E etf \in 0..1, keywords \in KeywordLists, total \in TopicTotals,
           a \in TopicDfs, b \in TopicDfs :
          TopicCall(CounterFrom(TOPIC_TERMS, <<etf, 0, 0, 0>>), keywords,
                    CounterFrom(FALLBACK_TERMS, <<a, b, a>>), total)
  /\ IdlePush
  /\ IdleMsg
  /\ IdleRuns
  /\ IdleOut
  /\ IdleCall

\* the call of assign_topic_label for the document
AssignTopic ==
  /\ pc = "topic"
  /\ items' = [items EXCEPT ![1].cluster_label =
                 assign_topic_label(doc_term_counts[1], items[1].keywords,
                                    doc_freq, total_docs)]
  /\ pc' = "labelled"
  /\ UNCHANGED <<corpus, term_texts, interaction_records, interaction_totals,
                 quote_buckets, boundary_quotes, zh_vocab, doc_term_counts, doc_freq,
                 total_docs, idf, insights, tokenized, pushVars, msgVars, runVars,
                 outVars, callVars>>

NextTopic == AssignTopic

SpecTopic == InitTopic /\ [][NextTopic]_vars

\* the score of rule r: the counts of the document's terms that are, in
\* lower case, a trigger of the rule in lower case
RECURSIVE SumOfCounts(_, _)
SumOfCounts(term_counts, terms) ==
  IF terms = {} THEN 0
  ELSE LET t == CHOOSE x \in terms : TRUE
       IN term_counts.n[t] + SumOfCounts(term_counts, terms \ {t})

TriggerCount(term_counts, r) ==
  SumOfCounts(term_counts,
              {t \in DOMAIN term_counts.n :
                 \E trig \in TOPIC_RULES[r].triggers : LowerStr(trig) = LowerStr(t)})

\* the rules with the highest score
TopRules(term_counts) ==
  {r \in DOMAIN TOPIC_RULES :
     \A q \in DOMAIN TOPIC_RULES : TriggerCount(term_counts, q) <= TriggerCount(term_counts, r)}

Earliest(rules) == CHOOSE r \in rules : \A q \in rules : r <= q

\* the keywords of the list, in its order, that pass the keyword gate and
\* whose document frequency Floored accepts
FallbackKeywords(Floored(_)) ==
  LET Ok(kw) == is_good_keyword(kw, doc_freq, total_docs) /\ Floored(CounterGet(doc_freq, kw))
  IN SelectSeq(items[1].keywords, Ok)

\* the label the document gets by rule or by the first of the keywords
TopicBy(keywords) ==
  LET top == TopRules(doc_term_counts[1])
  IN IF TriggerCount(doc_term_counts[1], Earliest(top)) >= 2
     THEN TOPIC_RULES[Earliest(top)].label
     ELSE IF keywords # <<>> THEN keywords[1] ELSE FALLBACK_LABEL

\* df is at least 3 in a corpus of fewer than 100, else at least 8 and at
\* least 0.5% of total_docs
AtFloor(df) ==
  IF total_docs < 100 THEN df >= 3 ELSE df >= 8 /\ 1000 * df >= 5 * total_docs

\* the same, with 0.5% of total_docs rounded down
AtRoundedFloor(df) ==
  IF total_docs < 100 THEN df >= 3 ELSE df >= 8 /\ df >= (5 * total_docs) \div 1000

\* C18 as stated: the label is that of the earliest rule with the highest
\* score if that score is at least 2; else the first ranked keyword that
\* passes the gate with a document frequency of at least 3 (fewer than 100
\* conversations) or at least max(8, 0.5% of N); else the fallback.
C18_TopicLabel ==
  pc = "labelled" => items[1].cluster_label = TopicBy(FallbackKeywords(AtFloor))

\* C18, amended: 0.5% of N is rounded down to a whole number.
C18_TopicLabelRoundedFloor ==
  pc = "labelled" => items[1].cluster_label = TopicBy(FallbackKeywords(AtRoundedFloor))

\* the document scores 2 for the second and for the last rule, by a term in
\* two spellings, and is labelled by the second
C18_Witness ==
  /\ pc = "labelled"
  /\ TopRules(doc_term_counts[1]) = {2, Len(TOPIC_RULES)}
  /\ TriggerCount(doc_term_counts[1], 2) = 2
  /\ Cardinality(DOMAIN doc_term_counts[1].n) = 2
  /\ items[1].cluster_label = TOPIC_RULES[2].label

\* no rule scores 2, the first keyword fails the gate, and the second has a
\* document frequency of 8 in a corpus where 0.5% is 8.5
C18_FloorWitness ==
  /\ pc = "labelled"
  /\ total_docs = 1700
  /\ Len(items[1].keywords) = 2
  /\ ~is_good_keyword(items[1].keywords[1], doc_freq, total_docs)
  /\ CounterGet(doc_freq, items[1].keywords[2]) = 8
  /\ items[1].cluster_label = items[1].keywords[2]

(***************************************************************************)
(* analyze_conversation on conversations whose messages raise the signals: *)
(* the row loop of build_index over two such conversations.                *)
(***************************************************************************)
MaxSignalMsgs == 2

\* bodies that raise: vague; clear; constraint; context; feedback and vague;
\* clear, constraint, context and feedback
SIGNAL_BODIES ==
  << Str("ok"), Str("why not?"), Str("budget 5k"),
     <<"u6211","u7684">>,                 \* 我的
     <<"u518d">>,                        \* 再
     Str("why must ") \o <<"u6211","u7684"," ","u518d">> \o Str(" x?") >>

\* the user messages, a reply that states a boundary and one that asks for
\* more (请提供)
SignalMessages ==
  {[role |-> Str("user"), body |-> SIGNAL_BODIES[i]] : i \in DOMAIN SIGNAL_BODIES}
    \cup {Message("assistant", "I cannot browse"),
          [role |-> Str("assistant"), body |-> <<"u8bf7","u63d0","u4f9b">>]}

RECURSIVE SignalSeqs(_)
SignalSeqs(n) ==
  IF n = 0 THEN {<<>>}
  ELSE SignalSeqs(n - 1)
         \cup {Append(q, m) : q \in {x \in SignalSeqs(n - 1) : Len(x) = n - 1},
                              m \in SignalMessages}

SignalRow(i, q) ==
  [file |-> FileOf(i), title |-> Str("Signals"), created_utc |-> <<>>,
   count |-> Len(q), exists |-> TRUE, messages |-> q]

\* a first conversation of no message, of a vague message, or of a message
\* that raises four signals and one that raises two; then a conversation of
\* up to MaxSignalMsgs messages
SignalCorpora ==
  {<<SignalRow(1, first), SignalRow(2, q)>> :
     first \in { <<>>,
                 <<[role |-> Str("user"), body |-> SIGNAL_BODIES[1]]>>,
                 <<[role |-> Str("user"), body |-> SIGNAL_BODIES[6]],
                   [role |-> Str("user"), body |-> SIGNAL_BODIES[5]]>> },
     q \in SignalSeqs(MaxSignalMsgs)}

InitSignal ==
  /\ \E c \in SignalCorpora : StartOf(c)
  /\ IdlePush
  /\ IdleMsg
  /\ IdleRuns
  /\ IdleOut
  /\ IdleCall

NextSignal == ReadRow

SpecSignal == InitSignal /\ [][NextSignal]_vars

\* the user messages of the row being read, as analyze_conversation keeps
\* them
UserTexts(row) == MsgsOfRole(CleanedMessages(row.messages), Str("user"))

\* the messages among texts that raise signal s
RaisedBy(texts, s) == {k \in DOMAIN texts : Raises(analyze_user_message(texts[k]), s)}

\* the quotes of the messages that raise s, in message order; the score is
\* the character length (whitespace not counted), or what is left of it to
\* 100 when inverted
OfferedQuotes(texts, file, s, inverted) ==
  LET Raised(k) == k \in RaisedBy(texts, s)
      ks == SelectSeq(Indices(Len(texts)), Raised)
      QuoteOf(k) ==
        LET m == analyze_user_message(texts[k])
        IN [text |-> truncate_text(m.text), file |-> file,
            score |-> IF inverted THEN 100 - m.char_len ELSE m.char_len]
  IN AsTuple([j \in DOMAIN ks |-> QuoteOf(ks[j])])

\* the counter of each signal in the totals
SIGNAL_COUNTER ==
  [clarity |-> "clarity_hits", constraint |-> "constraint_hits",
   context |-> "context_hits", feedback |-> "feedback_hits", vague |-> "vague_hits"]

FIRST_FOUR == {SIGNALS[k] : k \in 1..4}

\* C21 as stated: for the user messages of a conversation, each positive
\* signal of the five adds one to its own counter of the totals, and only
\* the first four signals offer the message to their quote pool, with the
\* character length as score.
C21_SignalsCounted ==
  [][Len(items') = Len(items) + 1 =>
       \E row \in {corpus[Len(items) + 1]} : \E texts \in {UserTexts(row)} :
          /\ \A s \in Range(SIGNALS) :
               /\ SIGNAL_COUNTER[s] \in DOMAIN interaction_totals'
               /\ interaction_totals'[SIGNAL_COUNTER[s]]
                    = interaction_totals[SIGNAL_COUNTER[s]] + Cardinality(RaisedBy(texts, s))
          /\ \A s \in FIRST_FOUR :
               quote_buckets'[s] = quote_buckets[s] \o OfferedQuotes(texts, row.file, s, FALSE)
          /\ quote_buckets'["vague"] = quote_buckets["vague"]]_vars

\* C21, amended: the first four signals each add one to their counter; the
\* vague signal has no counter in the totals; all five offer the message to
\* their pool, the first four with the character length (whitespace not
\* counted) as score and vague with 100 minus it.
C21_SignalsCountedAndOffered ==
  [][Len(items') = Len(items) + 1 =>
       \E row \in {corpus[Len(items) + 1]} : \E texts \in {UserTexts(row)} :
          /\ \A s \in FIRST_FOUR :
               interaction_totals'[SIGNAL_COUNTER[s]]
                 = interaction_totals[SIGNAL_COUNTER[s]] + Cardinality(RaisedBy(texts, s))
          /\ DOMAIN interaction_totals' = DOMAIN ZeroTotals
          /\ SIGNAL_COUNTER["vague"] \notin DOMAIN interaction_totals'
          /\ \A s \in Range(SIGNALS) :
               quote_buckets'[s]
                 = quote_buckets[s] \o OfferedQuotes(texts, row.file, s, s = "vague")]_vars

\* two conversations are read; the second has two messages that both raise
\* the clear signal, and a vague message was offered to the vague pool
C21_Witness ==
  /\ Len(items) = 2
  /\ Cardinality(RaisedBy(UserTexts(corpus[2]), "clarity")) = 2
  /\ interaction_totals.clarity_hits = 3
  /\ Len(quote_buckets["clarity"]) = 3
  /\ Len(quote_buckets["vague"]) = 1
  /\ quote_buckets["vague"][1].score = 99

\* the rates of a record: its hits over user_count = max(1, user_messages)
RatesOf(record) ==
  LET user_count == Max(1, record.user_messages)
  IN [clarity |-> Frac(record.clear_hits, user_count),
      constraint |-> Frac(record.constraint_hits, user_count),
      context |-> Frac(record.context_hits, user_count),
      feedback |-> Frac(record.feedback_hits, user_count)]

\* the rows read so far that have a record
Recorded == {i \in 1..Len(items) : corpus[i].file \in DOMAIN interaction_records}

\* C22: in the record of a conversation each rate is the signal's hits over
\* the number of user messages (0 when there are none), the iteration flag
\* is 1 exactly when there are at least 2 user messages, and the score is
\* the mean of the four rates and the flag, between 0 and 1.
C22_RatesAndScore ==
  \A i \in Recorded :
    \E record \in {interaction_records[corpus[i].file]} :
    \E texts \in {UserTexts(corpus[i])} :
    \E rates \in {RatesOf(record)} :
    \E score \in {ScoreOf(record)} :
      /\ record.user_messages = Len(texts)
      /\ \A s \in FIRST_FOUR :
           rates[s] = IF texts = <<>> THEN Frac(0, 1)
                      ELSE Frac(Cardinality(RaisedBy(texts, s)), Len(texts))
      /\ record.iteration \in {0, 1}
      /\ (record.iteration = 1) = (Len(texts) >= 2)
      /\ score = Frac(FracAdd(FracAdd(rates["clarity"], rates["constraint"]),
                              FracAdd(rates["context"], rates["feedback"])).n
                        + record.iteration
                            * FracAdd(FracAdd(rates["clarity"], rates["constraint"]),
                                      FracAdd(rates["context"], rates["feedback"])).d,
                      5 * FracAdd(FracAdd(rates["clarity"], rates["constraint"]),
                                  FracAdd(rates["context"], rates["feedback"])).d)
      /\ score.n >= 0
      /\ score.n <= score.d

\* a conversation of two user messages of which one raises the four signals
\* and the other feedback alone has the score 0.7, and one of two messages
\* that both raise the four signals has the score 1
C22_Witness ==
  /\ Len(items) = 2
  /\ Recorded = {1, 2}
  /\ interaction_records[corpus[1].file].user_messages = 2
  /\ ScoreOf(interaction_records[corpus[1].file]) = Frac(7, 10)
  /\ interaction_records[corpus[2].file].user_messages = 2
  /\ ScoreOf(interaction_records[corpus[2].file]) = Frac(1, 1)

\* a conversation of replies alone has a record with the score 0
C22_NoUserWitness ==
  /\ Len(items) = 2
  /\ 2 \in Recorded
  /\ interaction_records[corpus[2].file].user_messages = 0
  /\ interaction_records[corpus[2].file].assistant_messages = 2
  /\ ScoreOf(interaction_records[corpus[2].file]) = Frac(0, 1)

(***************************************************************************)
(* analyze_conversation on conversations without a usable message: the row *)
(* loop of build_index over a dated conversation with messages and a dated *)
(* conversation of up to MaxSkipMsgs messages, in either order.            *)
(***************************************************************************)
MaxSkipMsgs == 2

\* messages that are not usable: an empty body, one of blanks, a tool-call
\* payload of either role (bare, fenced), and messages of another role
UNUSABLE_MESSAGES ==
  { [role |-> Str("user"), body |-> <<>>],
    [role |-> Str("assistant"), body |-> <<" ", " ", "\n">>],
    [role |-> Str("user"), body |-> TOOL_QUERY],
    [role |-> Str("assistant"), body |-> Fenced("", TOOL_QUERY)],
    Message("system", "Be brief"),
    Message("Tool 2024-01-01", "I cannot browse why?") }

USABLE_MESSAGE == Message("user", "why not?")

RECURSIVE SkipSeqs(_)
SkipSeqs(n) ==
  IF n = 0 THEN {<<>>}
  ELSE SkipSeqs(n - 1)
         \cup {Append(q, m) : q \in {x \in SkipSeqs(n - 1) : Len(x) = n - 1},
                              m \in UNUSABLE_MESSAGES \cup {USABLE_MESSAGE}}

SkipRow(i, q) ==
  [file |-> FileOf(i), title |-> Str("Skip"), created_utc |-> TREND_DATES[i],
   count |-> Len(q), exists |-> TRUE, messages |-> q]

SkipCorpora ==
  {<<SkipRow(1, <<USABLE_MESSAGE, Message("assistant", "I cannot browse")>>), SkipRow(2, q)>> :
     q \in SkipSeqs(MaxSkipMsgs)}
    \cup {<<SkipRow(1, q), SkipRow(2, <<USABLE_MESSAGE>>)>> : q \in SkipSeqs(MaxSkipMsgs)}

InitSkip ==
  /\ \E c \in SkipCorpora : StartOf(c)
  /\ IdlePush
  /\ IdleMsg
  /\ IdleRuns
  /\ IdleOut
  /\ IdleCall

NextSkip == ReadRow

SpecSkip == InitSkip /\ [][NextSkip]_vars

\* the row has no usable message
NoUsable(row) == \A k \in DOMAIN row.messages : row.messages[k] \in UNUSABLE_MESSAGES

\* C23: reading a conversation without a usable message leaves no record,
\* leaves the totals, every signal pool and the boundary pool as they were,
\* and adds no trend point.
C23_UnusableSkipped ==
  [][Len(items') = Len(items) + 1 /\ NoUsable(corpus[Len(items) + 1]) =>
       /\ interaction_records' = interaction_records
       /\ corpus[Len(items) + 1].file \notin DOMAIN interaction_records'
       /\ interaction_totals' = interaction_totals
       /\ quote_buckets' = quote_buckets
       /\ boundary_quotes' = boundary_quotes
       /\ ClusterPoints(items', interaction_records')
            = ClusterPoints(items, interaction_records)]_vars

\* a conversation of two unusable messages was read after one with
\* messages: the totals count one conversation and there is one trend point
C23_Witness ==
  /\ Len(items) = 2
  /\ NoUsable(corpus[2])
  /\ Len(corpus[2].messages) = 2
  /\ corpus[2].messages[1].role # corpus[2].messages[2].role
  /\ interaction_totals.conversations = 1
  /\ quote_buckets["clarity"] # <<>>
  /\ boundary_quotes # <<>>
  /\ DOMAIN interaction_records = {corpus[1].file}
  /\ Len(ClusterPoints(items, interaction_records)) = 1

\* a conversation of unusable messages was read first, then one with
\* messages
C23_FirstWitness ==
  /\ Len(items) = 2
  /\ NoUsable(corpus[1])
  /\ corpus[1].messages # <<>>
  /\ DOMAIN interaction_records = {corpus[2].file}
  /\ Len(ClusterPoints(items, interaction_records)) = 1

(***************************************************************************)
(* The representative quotes: build_interaction_report on quote pools that *)
(* share files.                                                            *)
(***************************************************************************)
PoolQuote(text, i, score) == [text |-> Str(text), file |-> FileOf(i), score |-> score]

\* pools as push_quote leaves them below the cap, in call order: none; one
\* quote; the higher score last; three files with a tie; a tie of scores
QUOTE_POOLS ==
  { <<>>,
    <<PoolQuote("a", 1, 5)>>,
    <<PoolQuote("a", 1, 5), PoolQuote("b", 2, 7)>>,
    <<PoolQuote("b", 2, 7), PoolQuote("a", 1, 9), PoolQuote("c", 3, 7)>>,
    <<PoolQuote("b", 1, 5), PoolQuote("a", 2, 5)>> }

InitQuotes ==
  /\ quote_buckets \in [Range(SIGNALS) -> QUOTE_POOLS]
  /\ boundary_quotes = <<>>
  /\ items = <<>>
  /\ interaction_records = <<>>
  /\ interaction_totals = [ZeroTotals EXCEPT !.conversations = 3, !.user_messages = 12]
  /\ corpus = <<>>
  /\ term_texts = <<>>
  /\ zh_vocab = {}
  /\ doc_term_counts = <<>>
  /\ doc_freq = EmptyCounter
  /\ total_docs = 0
  /\ idf = <<>>
  /\ insights = None
  /\ pc = "report"
  /\ tokenized = <<>>
  /\ IdlePush
  /\ IdleMsg
  /\ IdleRuns
  /\ IdleOut
  /\ IdleCall

NextQuotes == BuildInteractionReport

SpecQuotes == InitQuotes /\ [][NextQuotes]_vars

\* the place in the category order of the category with this label
CategoryOf(label) == CHOOSE k \in DOMAIN QUOTE_ORDER : QUOTE_ORDER[k].label = label

\* the files of the quotes listed before place k
FilesBefore(k) == {report.quotes[j].file : j \in 1..(k - 1)}

\* C24: the report has at most 5 quotes, at most one of a category, in the
\* order clarity, constraint, context, feedback, vague, no two of one file;
\* the quote of a category is the entry of its pool with the highest score
\* among those whose file no earlier category used.
C24_RepresentativeQuotes ==
  pc = "reported" =>
    /\ Len(report.quotes) <= 5
    /\ \A k \in DOMAIN report.quotes :
         \E c \in DOMAIN QUOTE_ORDER : QUOTE_ORDER[c].label = report.quotes[k].label
    /\ \A k \in DOMAIN report.quotes : \A j \in DOMAIN report.quotes :
         j < k => /\ CategoryOf(report.quotes[j].label) < CategoryOf(report.quotes[k].label)
                  /\ report.quotes[j].file # report.quotes[k].file
    /\ \A k \in DOMAIN report.quotes :
         \E pool \in {Range(quote_buckets[QUOTE_ORDER[CategoryOf(report.quotes[k].label)].key])} :
         \E e \in pool :
           /\ e.text = report.quotes[k].text
           /\ e.file = report.quotes[k].file
           /\ e.file \notin FilesBefore(k)
           /\ \A other \in pool : other.file \notin FilesBefore(k) => other.score <= e.score

\* three categories have a quote, each of another file; the quote of the
\* second is not the best of its pool, whose file the first had used; and a
\* category with a pool has no quote
C24_Witness ==
  /\ pc = "reported"
  /\ Len(report.quotes) = 3
  /\ report.quotes[2].label = QUOTE_ORDER[2].label
  /\ \E e \in Range(quote_buckets["constraint"]) :
        /\ e.file = report.quotes[1].file
        /\ \A other \in Range(quote_buckets["constraint"]) : other.score < e.score \/ other = e
  /\ \E c \in DOMAIN QUOTE_ORDER :
        /\ quote_buckets[QUOTE_ORDER[c].key] # <<>>
        /\ \A k \in DOMAIN report.quotes : report.quotes[k].label # QUOTE_ORDER[c].label

(***************************************************************************)
(* The hot terms: the last step of pass 2 on its own, over document        *)
(* frequencies of pinned and other terms of both scripts.                  *)
(***************************************************************************)
HOT_TOTAL_DOCS == 10

\* terms in the order in which they are first counted: 基金 (pinned), 咖啡,
\* ETF (pinned), tomato, 花园, garden, 番茄, GPT (pinned)
HOT_TERMS ==
  << <<"u57fa","u91d1">>, <<"u5496","u5561">>, Str("ETF"), Str("tomato"),
     <<"u82b1","u56ed">>, Str("garden"), <<"u756a","u8304">>, Str("GPT") >>

\* document frequencies: absent, kept by the gate (2, 3), and for 咖啡 also
\* too rare (1) and too common (7)
HotDfs ==
  {<<r[1], c, r[2], r[3], r[4], r[5], r[6], r[7]>> :
     c \in {0, 1, 2, 3, 7}, r \in [1..7 -> {0, 2, 3}]}

\* two-character terms over 花 园 番 茄 咖 啡
HOT_CHARS == <<"u82b1", "u56ed", "u756a", "u8304", "u5496", "u5561">>

HotBigrams ==
  LET Pairs(a) == SelectSeq([b \in 1..Len(HOT_CHARS) |-> <<HOT_CHARS[a], HOT_CHARS[b]>>],
                            LAMBDA t : t[1] # t[2])
  IN Pairs(1) \o Pairs(2) \o Pairs(3) \o Pairs(4) \o Pairs(5) \o Pairs(6)

HOT_WORDS ==
  << Str("ETF"), Str("GPT"), Str("MBA"), Str("tomato"), Str("garden"), Str("coffee"),
     Str("water"), Str("paper"), Str("river"), Str("stone"), Str("cloud"), Str("bread") >>

\* more terms than the list holds: the 30 two-character terms and n words,
\* each in 2 conversations
ManyTerms(n) ==
  CounterFrom(HotBigrams \o SubSeq(HOT_WORDS, 1, n),
              [k \in 1..(Len(HotBigrams) + n) |-> 2])

\* the state in which the hot terms are computed
HotCall(df) ==
  /\ items = <<>>
  /\ doc_term_counts = <<>>
  /\ doc_freq = df
  /\ total_docs = HOT_TOTAL_DOCS
  /\ interaction_records = <<>>
  /\ interaction_totals = ZeroTotals
  /\ quote_buckets = EmptyBuckets
  /\ boundary_quotes = <<>>
  /\ corpus = <<>>
  /\ term_texts = <<>>
  /\ zh_vocab = {}
  /\ idf = <<>>
  /\ insights = None
  /\ pc = "score"
  /\ tokenized = <<>>

InitHot ==
  /\ \/ \E counts \in HotDfs :
          HotCall(CounterFrom(HOT_TERMS, counts))
     \/ \E n \in 0..Len(HOT_WORDS) : HotCall(ManyTerms(n))
  /\ IdlePush
  /\ IdleMsg
  /\ IdleRuns
  /\ IdleOut
  /\ IdleCall

NextHot == BuildInsights

SpecHot == InitHot /\ [][NextHot]_vars

\* the hot-term list
HotList == [k \in DOMAIN insights.top_keywords |-> insights.top_keywords[k].term]

\* the pinned keywords that occur in the corpus and pass the gate
PinnedPrefix ==
  LET Occurs(t) == t \in DOMAIN doc_freq.n /\ is_good_keyword(t, doc_freq, total_docs)
  IN SelectSeq(PINNED_KEYWORDS, Occurs)

\* the list after the pinned prefix
AfterPinned == SubSeq(HotList, Len(PinnedPrefix) + 1, Len(HotList))

\* the terms of a script (CJK or not) that pass the gate and are not pinned
UnusedOfScript(cjk) ==
  {t \in DOMAIN doc_freq.n :
     /\ is_good_keyword(t, doc_freq, total_docs)
     /\ t \notin Range(PinnedPrefix)
     /\ is_chinese_term(t) = cjk}

\* how many of the first n entries after the prefix are of the script
TakenOfScript(cjk, n) ==
  Cardinality({p \in 1..n : is_chinese_term(AfterPinned[p]) = cjk})

\* both scripts have an unused term left when place p after the prefix is
\* filled
BothLeft(p) ==
  /\ TakenOfScript(TRUE, p - 1) < Cardinality(UnusedOfScript(TRUE))
  /\ TakenOfScript(FALSE, p - 1) < Cardinality(UnusedOfScript(FALSE))

\* C25: the hot-term list has at most 40 entries, none repeated, all
\* passing the gate; it starts with the pinned keywords that occur and pass
\* the gate, in pinned order; after them, as long as both scripts have
\* unused terms, the entries are two CJK terms, then one other term, and so
\* on, each script in descending order of document frequency.
C25_HotTerms ==
  pc = "done" =>
    /\ Len(HotList) <= 40
    /\ \A j \in DOMAIN HotList : \A k \in DOMAIN HotList : j # k => HotList[j] # HotList[k]
    /\ \A k \in DOMAIN HotList : is_good_keyword(HotList[k], doc_freq, total_docs)
    /\ Len(HotList) >= Len(PinnedPrefix)
    /\ SubSeq(HotList, 1, Len(PinnedPrefix)) = PinnedPrefix
    /\ \A p \in DOMAIN AfterPinned :
         BothLeft(p) => (is_chinese_term(AfterPinned[p]) = (p % 3 # 0))
    /\ \A p \in DOMAIN AfterPinned : \A q \in DOMAIN AfterPinned :
         p < q /\ is_chinese_term(AfterPinned[p]) = is_chinese_term(AfterPinned[q])
           => CounterGet(doc_freq, AfterPinned[p]) >= CounterGet(doc_freq, AfterPinned[q])

\* 基金 is pinned and is the CJK term of the highest document frequency:
\* after it the list goes on with one CJK term and then a word
C25_SlotLost ==
  /\ pc = "done"
  /\ PinnedPrefix = <<HOT_TERMS[1]>>
  /\ Len(AfterPinned) >= 3
  /\ is_chinese_term(AfterPinned[1])
  /\ ~is_chinese_term(AfterPinned[2])
  /\ BothLeft(2)

\* the list is full and a term that passes the gate is left out
C25_FullList ==
  /\ pc = "done"
  /\ Len(HotList) = 40
  /\ \E t \in DOMAIN doc_freq.n :
       is_good_keyword(t, doc_freq, total_docs) /\ t \notin Range(HotList)

(***************************************************************************)
(* segment_zh on its own: runs over three characters, and vocabularies     *)
(* with entries of 1 to 5 characters, a stop word among them.              *)
(***************************************************************************)
MaxRun == 5

\* 这 个 基
SEG_CHARS == {"u8fd9", "u4e2a", "u57fa"}

RECURSIVE RunsUpTo(_)
RunsUpTo(n) ==
  IF n = 0 THEN {<<>>}
  ELSE RunsUpTo(n - 1)
         \cup {Append(r, c) : r \in {x \in RunsUpTo(n - 1) : Len(x) = n - 1}, c \in SEG_CHARS}

\* 这个 (a stop word), 个基, 基这, 这个基, 个基这个
SEG_ENTRIES ==
  { <<"u8fd9","u4e2a">>, <<"u4e2a","u57fa">>, <<"u57fa","u8fd9">>,
    <<"u8fd9","u4e2a","u57fa">>, <<"u4e2a","u57fa","u8fd9","u4e2a">> }

\* the vocabularies: every set of the entries, and one with entries of 1
\* and of 5 characters
SegVocabs ==
  (SUBSET SEG_ENTRIES)
    \cup { { <<"u57fa">>, <<"u57fa","u57fa">>,
             <<"u57fa","u57fa","u57fa","u57fa","u57fa">> } }

InitSegment ==
  /\ zh_seq \in RunsUpTo(MaxRun)
  /\ seg_vocab \in SegVocabs
  /\ seg_tokens = <<>>
  /\ call_pc = "segment"
  /\ IdleJson
  /\ IdlePath
  /\ IdlePush
  /\ IdleMsg
  /\ IdleIndex
  /\ IdleRuns
  /\ IdleOut

\* the call segment_zh(seq, vocab)
SegmentZh ==
  /\ call_pc = "segment"
  /\ seg_tokens' = segment_zh(zh_seq, seg_vocab)
  /\ call_pc' = "segmented"
  /\ UNCHANGED <<zh_seq, seg_vocab, jsonVars, pathVars, pushVars, msgVars, indexVars, runVars, outVars>>

NextSegment == SegmentZh

SpecSegment == InitSegment /\ [][NextSegment]_vars

\* the length of the longest of the entries that starts at place i of the
\* run, 4 before 3 before 2; 0 if there is none
LongestAt(i, entries) ==
  LET Starts(n) == i + n - 1 <= Len(zh_seq) /\ SubSeq(zh_seq, i, i + n - 1) \in entries
  IN IF Starts(4) THEN 4 ELSE IF Starts(3) THEN 3 ELSE IF Starts(2) THEN 2 ELSE 0

\* the places the scan stops at: the first, and from a place the one behind
\* the token taken there, or the next place if none is taken
ScanPlaces(entries) ==
  LET Step(i) == IF LongestAt(i, entries) > 0 THEN LongestAt(i, entries) ELSE 1
      scan[i \in 1..Len(zh_seq)] ==
        i = 1 \/ \E j \in 1..(i - 1) : scan[j] /\ j + Step(j) = i
  IN {i \in 1..Len(zh_seq) : scan[i]}

\* the tokens are substrings of the run that do not overlap, from left to
\* right, each one of the entries with 2 to 4 characters: at each place of
\* the scan the longest entry that starts there, none where none starts
SegmentedBy(entries) ==
  LET places == ScanPlaces(entries)
      Taken(i) == i \in places /\ LongestAt(i, entries) > 0
      starts == SelectSeq(Indices(Len(zh_seq)), Taken)
  IN /\ Len(seg_tokens) = Len(starts)
     /\ \A k \in DOMAIN starts :
          /\ Len(seg_tokens[k]) \in 2..4
          /\ seg_tokens[k] \in entries
          /\ Len(seg_tokens[k]) = LongestAt(starts[k], entries)
          /\ seg_tokens[k] = SubSeq(zh_seq, starts[k], starts[k] + Len(seg_tokens[k]) - 1)
          /\ k > 1 => starts[k] >= starts[k - 1] + Len(seg_tokens[k - 1])

\* C26 as stated: for any run and any vocabulary the tokens are the longest
\* vocabulary matches at the places of the scan.
C26_LongestMatch == call_pc = "segmented" => SegmentedBy(seg_vocab)

\* C26, amended: the matches are vocabulary entries that are no stop words.
C26_LongestMatchNoStopWord ==
  call_pc = "segmented" => SegmentedBy(seg_vocab \ ZH_STOPWORDS)

\* the first place was passed over without a token, and at the second a
\* token of 4 characters was taken where an entry of 2 starts as well
C26_Witness ==
  /\ call_pc = "segmented"
  /\ Len(zh_seq) = 5
  /\ Len(seg_tokens) = 1
  /\ seg_tokens[1] = SubSeq(zh_seq, 2, 5)
  /\ SubSeq(zh_seq, 2, 3) \in seg_vocab \ ZH_STOPWORDS

\* two tokens were taken with a place between them passed over
C26_GapWitness ==
  /\ call_pc = "segmented"
  /\ Len(zh_seq) = 5
  /\ Len(seg_tokens) = 2
  /\ seg_tokens[1] = SubSeq(zh_seq, 1, 2)
  /\ seg_tokens[2] = SubSeq(zh_seq, 4, 5)

\* the vocabulary holds a stop word that starts the run, and no token is
\* taken there
C26_StopWordWitness ==
  /\ call_pc = "segmented"
  /\ Len(zh_seq) >= 2
  /\ SubSeq(zh_seq, 1, 2) \in seg_vocab \cap ZH_STOPWORDS
  /\ seg_tokens # <<>>
  /\ seg_tokens[1] # SubSeq(zh_seq, 1, Len(seg_tokens[1]))

(***************************************************************************)
(* The totals over a run of build_index: two conversations out of a few    *)
(* that raise the signals, ask for more and state a boundary.              *)
(***************************************************************************)
ASKS_MORE == [role |-> Str("assistant"), body |-> <<"u8bf7","u63d0","u4f9b">>]   \* 请提供

TOTALS_CONVERSATIONS ==
  << <<>>,
     <<[role |-> Str("user"), body |-> SIGNAL_BODIES[1]]>>,
     <<ASKS_MORE, Message("assistant", "I cannot browse"), ASKS_MORE>>,
     <<[role |-> Str("user"), body |-> SIGNAL_BODIES[6]], ASKS_MORE,
       [role |-> Str("user"), body |-> SIGNAL_BODIES[6]], ASKS_MORE>>,
     <<[role |-> Str("user"), body |-> SIGNAL_BODIES[2]],
       [role |-> Str("user"), body |-> SIGNAL_BODIES[5]]>>,
     <<[role |-> Str("user"), body |-> SIGNAL_BODIES[3]], ASKS_MORE>> >>

TotalsCorpora ==
  {<<SignalRow(1, TOTALS_CONVERSATIONS[a]), SignalRow(2, TOTALS_CONVERSATIONS[b])>> :
     a \in DOMAIN TOTALS_CONVERSATIONS, b \in DOMAIN TOTALS_CONVERSATIONS}

InitTotals ==
  /\ \E c \in TotalsCorpora : StartOf(c)
  /\ IdlePush
  /\ IdleMsg
  /\ IdleRuns
  /\ IdleOut
  /\ IdleCall

NextTotals == NextIndex

SpecTotals == InitTotals /\ [][NextTotals]_vars

\* the rates of the report summary
SUMMARY_RATES ==
  {"clarity_avg", "constraint_rate", "context_rate", "feedback_rate",
   "iteration_rate", "clarification_rate"}

TotalsInRange ==
  LET t == interaction_totals
  IN /\ \A k \in DOMAIN t : t[k] >= 0
     /\ t.clarity_hits <= t.user_messages
     /\ t.constraint_hits <= t.user_messages
     /\ t.context_hits <= t.user_messages
     /\ t.feedback_hits <= t.user_messages
     /\ t.clarify_hits <= t.assistant_messages
     /\ t.iteration_conversations <= t.conversations
     /\ pc = "written" /\ report.method = METHOD =>
          \A r \in SUMMARY_RATES :
            report.summary[r].n >= 0 /\ report.summary[r].n <= report.summary[r].d

TotalsNeverDecrease ==
  \A k \in DOMAIN interaction_totals : interaction_totals'[k] >= interaction_totals[k]

\* C27: the counters of the totals are never negative and never decrease,
\* the four signal counters are at most user_messages, clarify_hits is at
\* most assistant_messages, iteration_conversations at most conversations,
\* and every rate of the report summary lies between 0 and 1.
C27_TotalsBounded == [](TotalsInRange) /\ [][TotalsNeverDecrease]_vars

\* the report is written over two conversations in which every user message
\* raised the four signals and every reply asked for more: the rates are 1
C27_Witness ==
  /\ pc = "written"
  /\ report.method = METHOD
  /\ interaction_totals.conversations = 2
  /\ interaction_totals.user_messages = 4
  /\ interaction_totals.clarity_hits = 4
  /\ interaction_totals.clarify_hits = 4
  /\ interaction_totals.iteration_conversations = 2
  /\ \A r \in SUMMARY_RATES : report.summary[r] = Frac(1, 1)

(***************************************************************************)
(* tools/prepare_cursor_browse.py: iter_json_array.  A JSON value is kept  *)
(* as its text without white space, its members in the order of the text   *)
(* and a repeated key of an object with its last value (a dict).           *)
(***************************************************************************)
MaxElems == 2

MaxChunk == 3

\* the default of the parameter chunk_size, 1024 * 1024
DEFAULT_CHUNK_SIZE == 1048576

\* the character at the place idx, places counted from 0
CharAt(s, idx) == s[idx + 1]

\* json.decoder.WHITESPACE
JSON_WS == {" ", "\t", "\n", "\r"}

\* the characters iter_json_array passes over between two elements
SEPARATORS == JSON_WS \cup {","}

RECURSIVE SkipOver(_, _, _)
\* the first place from idx on whose character is not in chars
SkipOver(s, idx, chars) ==
  IF idx < Len(s) /\ CharAt(s, idx) \in chars THEN SkipOver(s, idx + 1, chars) ELSE idx

RECURSIVE FindFrom(_, _, _)
\* str.find from the place idx: the first place of ch, or -1
FindFrom(s, ch, idx) ==
  IF idx >= Len(s) THEN -1
  ELSE IF CharAt(s, idx) = ch THEN idx
  ELSE FindFrom(s, ch, idx + 1)

\* a JSONDecodeError
DecodeError == [ok |-> FALSE, obj |-> <<>>, end |-> 0, elems |-> <<>>]

\* a value and the place behind it; elems are the members of an array
Decoded(obj, end, elems) == [ok |-> TRUE, obj |-> obj, end |-> end, elems |-> elems]

RECURSIVE JoinWith(_, _)
JoinWith(texts, sep) ==
  IF texts = <<>> THEN <<>>
  ELSE IF Len(texts) = 1 THEN texts[1]
  ELSE texts[1] \o sep \o JoinWith(Tail(texts), sep)

\* dict(pairs): a key seen before keeps its place and takes the new value
PairSet(pairs, key, value) ==
  IF \E k \in DOMAIN pairs : pairs[k][1] = key
  THEN [k \in DOMAIN pairs |-> IF pairs[k][1] = key THEN <<key, value>> ELSE pairs[k]]
  ELSE Append(pairs, <<key, value>>)

ArrayText(values) == <<"[">> \o JoinWith(values, <<",">>) \o <<"]">>

ObjectText(pairs) ==
  <<"{">> \o JoinWith([k \in DOMAIN pairs |-> pairs[k][1] \o <<":">> \o pairs[k][2]], <<",">>)
    \o <<"}">>

\* scanstring from the place behind the opening quote; the texts of the model
\* hold no backslash, and a control character inside a string is an error
scanstring(s, end) ==
  LET close == FindFrom(s, "\"", end)
  IN IF close = -1 THEN DecodeError
     ELSE IF \E k \in end..(close - 1) : CharAt(s, k) \in {"\t", "\n", "\r"} THEN DecodeError
     ELSE Decoded(<<"\"">> \o SubSeq(s, end + 1, close) \o <<"\"">>, close + 1, <<>>)

\* the match of NUMBER_RE at idx on a text without sign, point and exponent:
\* 0, or a digit other than 0 with the digits behind it
ScanNumber(s, idx) ==
  IF CharAt(s, idx) = "0" THEN Decoded(<<"0">>, idx + 1, <<>>)
  ELSE LET end == SkipOver(s, idx, Range(DIGITS))
       IN Decoded(SubSeq(s, idx + 1, end), end, <<>>)

RECURSIVE scan_once(_, _), ArrayValues(_, _, _), ObjectPairs(_, _, _)
\* the loop of JSONArray, from the place of a value
ArrayValues(s, end, values) ==
  LET v == scan_once(s, end)
  IN IF ~v.ok THEN DecodeError
     ELSE LET vals == Append(values, v.obj)
              e == SkipOver(s, v.end, JSON_WS)
          IN IF e >= Len(s) THEN DecodeError
             ELSE IF CharAt(s, e) = "]" THEN Decoded(ArrayText(vals), e + 1, vals)
             ELSE IF CharAt(s, e) # "," THEN DecodeError
             ELSE ArrayValues(s, SkipOver(s, e + 1, JSON_WS), vals)

\* JSONArray, from the place behind the bracket
JSONArray(s, end) ==
  LET e == SkipOver(s, end, JSON_WS)
  IN IF e < Len(s) /\ CharAt(s, e) = "]" THEN Decoded(ArrayText(<<>>), e + 1, <<>>)
     ELSE ArrayValues(s, e, <<>>)

\* the loop of JSONObject, from the place behind the opening quote of a key
ObjectPairs(s, end, pairs) ==
  LET key == scanstring(s, end)
  IN IF ~key.ok THEN DecodeError
     ELSE LET colon == SkipOver(s, key.end, JSON_WS)
          IN IF colon >= Len(s) \/ CharAt(s, colon) # ":" THEN DecodeError
             ELSE LET v == scan_once(s, SkipOver(s, colon + 1, JSON_WS))
                  IN IF ~v.ok THEN DecodeError
                     ELSE LET ps == PairSet(pairs, key.obj, v.obj)
                              e == SkipOver(s, v.end, JSON_WS)
                          IN IF e >= Len(s) THEN DecodeError
                             ELSE IF CharAt(s, e) = "}" THEN Decoded(ObjectText(ps), e + 1, <<>>)
                             ELSE IF CharAt(s, e) # "," THEN DecodeError
                             ELSE LET q == SkipOver(s, e + 1, JSON_WS)
                                  IN IF q >= Len(s) \/ CharAt(s, q) # "\"" THEN DecodeError
                                     ELSE ObjectPairs(s, q + 1, ps)

\* JSONObject, from the place behind the brace
JSONObject(s, end) ==
  LET e == SkipOver(s, end, JSON_WS)
  IN IF e >= Len(s) THEN DecodeError
     ELSE IF CharAt(s, e) = "}" THEN Decoded(ObjectText(<<>>), e + 1, <<>>)
     ELSE IF CharAt(s, e) # "\"" THEN DecodeError
     ELSE ObjectPairs(s, e + 1, <<>>)

\* json.scanner: the value that starts at idx; the texts of the model hold
\* none of null, true, false, NaN and Infinity
scan_once(s, idx) ==
  IF idx >= Len(s) THEN DecodeError
  ELSE LET ch == CharAt(s, idx)
       IN IF ch = "\"" THEN scanstring(s, idx + 1)
          ELSE IF ch = "{" THEN JSONObject(s, idx + 1)
          ELSE IF ch = "[" THEN JSONArray(s, idx + 1)
          ELSE IF IsDigit(ch) THEN ScanNumber(s, idx)
          ELSE DecodeError

\* JSONDecoder.raw_decode
raw_decode(s, idx) == scan_once(s, idx)

RECURSIVE DecodeLoop(_, _, _)
\* the loop that decodes from buf: it ends at the end of buf and at a value
\* that does not decode (done is FALSE), or at the closing bracket
DecodeLoop(buf, idx, out) ==
  LET i == SkipOver(buf, idx, SEPARATORS)
  IN IF i >= Len(buf) THEN [idx |-> i, out |-> out, done |-> FALSE]
     ELSE IF CharAt(buf, i) = "]" THEN [idx |-> i, out |-> out, done |-> TRUE]
     ELSE LET d == raw_decode(buf, i)
          IN IF ~d.ok THEN [idx |-> i, out |-> out, done |-> FALSE]
             ELSE DecodeLoop(buf, d.end, Append(out, d.obj))

RECURSIVE ReadLoop(_, _, _, _, _, _, _)
\* the loop over the reads of the file, pos characters of it read so far;
\* after the last read the loop behind it decodes what is left in buf from
\* the place 0, if the bracket was found
ReadLoop(text, size, pos, buf, started, idx, out) ==
  IF pos >= Len(text)
  THEN IF ~started THEN out ELSE DecodeLoop(buf, 0, out).out
  ELSE LET chunk == SubSeq(text, pos + 1, Min(pos + size, Len(text)))
           b == buf \o chunk
           start == FindFrom(b, "[", 0)
       IN IF ~started /\ start = -1
          THEN ReadLoop(text, size, pos + size, SubSeq(b, Len(b), Len(b)), FALSE, idx, out)
          ELSE With(DecodeLoop(b, IF started THEN idx ELSE start + 1, out), LAMBDA r :
                 IF r.done THEN r.out
                 ELSE ReadLoop(text, size, pos + size, SubSeq(b, r.idx + 1, Len(b)),
                               TRUE, r.idx, r.out))

\* list(iter_json_array(path, chunk_size)), text the content of the file
iter_json_array(text, size) == ReadLoop(text, size, 0, <<>>, FALSE, 0, <<>>)

\* 1, 12, "a", [1,2], {"a":1}
JSON_ELEMENTS ==
  << Str("1"), Str("12"), Str("\"a\""), Str("[1,2]"), Str("{\"a\":1}") >>

RECURSIVE ElementLists(_)
\* the lists of up to n elements
ElementLists(n) ==
  IF n = 0 THEN {<<>>}
  ELSE ElementLists(n - 1)
         \cup {Append(l, e) : l \in {x \in ElementLists(n - 1) : Len(x) = n - 1},
                              e \in Range(JSON_ELEMENTS)}

\* the well-formed files of the model: an array of the elements, with or
\* without white space before the bracket and behind a comma
ArrayFiles ==
  {lead \o <<"[">> \o JoinWith(l, sep) \o <<"]">> :
     lead \in {<<>>, <<" ">>}, sep \in {<<",">>, Str(", ")}, l \in ElementLists(MaxElems)}

ChunkSizes == 1..MaxChunk \cup {DEFAULT_CHUNK_SIZE}

InitIter ==
  /\ json_text \in ArrayFiles
  /\ chunk_size \in ChunkSizes
  /\ yielded = <<>>
  /\ call_pc = "iterate"
  /\ IdleSeg
  /\ IdlePath
  /\ IdlePush
  /\ IdleMsg
  /\ IdleIndex
  /\ IdleRuns
  /\ IdleOut

\* the call list(iter_json_array(path, chunk_size))
IterJsonArray ==
  /\ call_pc = "iterate"
  /\ yielded' = iter_json_array(json_text, chunk_size)
  /\ call_pc' = "iterated"
  /\ UNCHANGED <<json_text, chunk_size, segVars, pathVars, pushVars, msgVars, indexVars,
                 runVars, outVars>>

NextIter == IterJsonArray

SpecIter == InitIter /\ [][NextIter]_vars

\* json.load of the file: the elements of its array, in the order of the file
TopLevelElements(text) == JSONArray(text, FindFrom(text, "[", 0) + 1).elems

\* C28: iter_json_array yields every top-level element of the array once and
\* in the order of the file, whatever the chunk size.
C28_EveryElementOnce ==
  call_pc = "iterated" => yielded = TopLevelElements(json_text)

\* a file read in one piece is yielded whole
WholeFileYielded ==
  call_pc = "iterated" /\ chunk_size >= Len(json_text) => yielded = TopLevelElements(json_text)

(***************************************************************************)
(* tools/prepare_cursor_browse.py: pick_path.  The mapping of a            *)
(* conversation holds its nodes by their id, in the order of NODE_IDS; a    *)
(* parent pointer is an id of the mapping, an id that is missing from it,   *)
(* or NO_NODE (None).                                                      *)
(***************************************************************************)
MaxTime == 1

NODE_IDS == <<"a", "b", "c">>

MISSING_ID == "x"

\* None as an id: the loop of pick_path ends at it
NO_NODE == ""

\* a message without create_time
NO_TIME == -1

Nodes(id) ==
  {[id |-> id, parent |-> p, children |-> ch, message |-> [create_time |-> t]] :
     p \in Range(NODE_IDS) \cup {MISSING_ID, NO_NODE},
     ch \in {<<>>, <<MISSING_ID>>},
     t \in {NO_TIME} \cup 1..MaxTime}

Mappings ==
  UNION {{m \in [ids -> UNION {Nodes(id) : id \in ids}] : \A id \in ids : m[id].id = id} :
           ids \in SUBSET Range(NODE_IDS)}

\* the keys of the mapping in the order of the dict
KeysOf(m) == SelectSeq(NODE_IDS, LAMBDA id : id \in DOMAIN m)

\* leaves: the keys of the nodes without children
LeavesOf(m) == SelectSeq(KeysOf(m), LAMBDA id : m[id].children = <<>>)

\* score: msg.get("create_time") or 0
score(m, node_key) ==
  IF m[node_key].message.create_time = NO_TIME THEN 0 ELSE m[node_key].message.create_time

\* max(leaves, key=score): the first of the leaves of the greatest score
MaxLeaf(m) ==
  LET leaves == LeavesOf(m)
      k == CHOOSE k \in DOMAIN leaves :
             /\ \A j \in DOMAIN leaves : score(m, leaves[j]) <= score(m, leaves[k])
             /\ \A j \in 1..(k - 1) : score(m, leaves[j]) < score(m, leaves[k])
  IN leaves[k]

RECURSIVE WalkUp(_, _, _, _)
\* the loop of pick_path: path and seen while the walk is at node_id
WalkUp(m, node_id, walked, seen) ==
  IF node_id = NO_NODE \/ node_id \in seen THEN walked
  ELSE IF node_id \notin DOMAIN m THEN walked
  ELSE WalkUp(m, m[node_id].parent, Append(walked, m[node_id]), seen \cup {node_id})

Reverse(seq) == [k \in 1..Len(seq) |-> seq[Len(seq) + 1 - k]] \o <<>>

\* a plausible slip: the path is returned as it was walked, newest first
pick_path_unreversed(m, current) ==
  IF current \in DOMAIN m THEN WalkUp(m, current, <<>>, {})
  ELSE IF LeavesOf(m) = <<>> THEN <<>>
  ELSE WalkUp(m, MaxLeaf(m), <<>>, {})

pick_path(m, current) ==
  IF current \in DOMAIN m THEN Reverse(WalkUp(m, current, <<>>, {}))
  ELSE IF LeavesOf(m) = <<>> THEN <<>>
  ELSE Reverse(WalkUp(m, MaxLeaf(m), <<>>, {}))

InitPath ==
  /\ mapping \in Mappings
  /\ current_node \in Range(NODE_IDS) \cup {MISSING_ID, NO_NODE}
  /\ path = <<>>
  /\ call_pc = "pick"
  /\ IdleSeg
  /\ IdleJson
  /\ IdlePush
  /\ IdleMsg
  /\ IdleIndex
  /\ IdleRuns
  /\ IdleOut

\* the call pick_path(mapping, conv.get("current_node"))
PickPath ==
  /\ call_pc = "pick"
  /\ path' = pick_path(mapping, current_node)
  /\ call_pc' = "picked"
  /\ UNCHANGED <<mapping, current_node, segVars, jsonVars, pushVars, msgVars, indexVars,
                 runVars, outVars>>

NextPath == PickPath

SpecPath == InitPath /\ [][NextPath]_vars

\* the ids a node may be started from when current_node is not in the
\* mapping: the childless nodes no other childless node is newer than, a
\* message without create_time counting as 0
NewestLeaves ==
  {id \in DOMAIN mapping :
     /\ mapping[id].children = <<>>
     /\ \A other \in DOMAIN mapping :
          mapping[other].children = <<>> => score(mapping, other) <= score(mapping, id)}

StartsAt(id) ==
  IF current_node \in DOMAIN mapping THEN id = current_node ELSE id \in NewestLeaves

\* C29: pick_path returns a list without a repeated node that leads from the
\* oldest ancestor reached to the starting node, each node the parent of the
\* next; the starting node is current_node if the mapping has it and else a
\* childless node of the greatest create_time, and the list is empty when
\* there is neither.
C29_PickPath ==
  call_pc = "picked" =>
    IF current_node \notin DOMAIN mapping /\ NewestLeaves = {}
    THEN path = <<>>
    ELSE /\ path # <<>>
         /\ StartsAt(path[Len(path)].id)
         /\ \A k \in DOMAIN path : path[k] = mapping[path[k].id]
         /\ \A j, k \in DOMAIN path : j # k => path[j].id # path[k].id
         /\ \A k \in 1..(Len(path) - 1) : path[k + 1].parent = path[k].id
         /\ LET up == path[1].parent
            IN up = NO_NODE \/ up \notin DOMAIN mapping \/ \E k \in DOMAIN path : path[k].id = up

\* current_node is not in the mapping, the parent pointers of the three
\* nodes form a cycle, and the path holds all three
C29_Witness ==
  /\ call_pc = "picked"
  /\ current_node \notin DOMAIN mapping
  /\ Len(path) = 3
  /\ path[1].parent = path[3].id

\* the walk ends at a parent that is missing from the mapping
C29_MissingWitness ==
  /\ call_pc = "picked"
  /\ current_node \in DOMAIN mapping
  /\ Len(path) = 2
  /\ path[1].parent = MISSING_ID

\* no node is childless and current_node is not in the mapping
C29_EmptyWitness ==
  /\ call_pc = "picked"
  /\ DOMAIN mapping # {}
  /\ current_node = NO_NODE
  /\ path = <<>>

(***************************************************************************)
(* The capped quote pools against pools that keep every candidate: the     *)
(* push_quote calls of analyze_conversation, then the quote loop of         *)
(* build_interaction_report.  offered holds, for every signal, the          *)
(* candidates in the order of the calls.                                   *)
(***************************************************************************)
MaxOffers == 2

POOL_TEXTS == {Str("ab"), Str("abc")}

LONG_TEXT == Str("abcd")

\* the quote of a user message that raises signal s
PoolOffer(s, text, file) ==
  [text |-> truncate_text(text), file |-> file,
   score |-> IF s = "vague" THEN 100 - CharLen(text) ELSE CharLen(text)]

\* the pool of s after a conversation of 60 messages LONG_TEXT
FullPool(s, file) == [k \in 1..SIGNAL_QUOTE_LIMIT |-> PoolOffer(s, LONG_TEXT, file)] \o <<>>

\* no pool holds a quote yet, or one pool is at its cap: that of a signal
\* scored by the length, or that of vague
FilledBuckets ==
  {EmptyBuckets}
    \cup {[EmptyBuckets EXCEPT ![s] = FullPool(s, file)] :
             s \in {"constraint", "vague"}, file \in QuoteFiles}

\* the totals after the messages of the pools (none of them raised a signal
\* but the one of its pool)
TotalsOf(buckets) ==
  LET Hits(s) == Len(buckets[s])
      n == Hits("clarity") + Hits("constraint") + Hits("context") + Hits("feedback")
             + Hits("vague")
  IN [ZeroTotals EXCEPT !.conversations = 2, !.user_messages = n,
                        !.user_chars = n * CharLen(LONG_TEXT),
                        !.clarity_hits = Hits("clarity"),
                        !.constraint_hits = Hits("constraint"),
                        !.context_hits = Hits("context"),
                        !.feedback_hits = Hits("feedback")]

InitPools ==
  /\ quote_buckets \in FilledBuckets
  /\ offered = quote_buckets
  /\ limit = SIGNAL_QUOTE_LIMIT
  /\ bucket = <<>>
  /\ truncated = FALSE
  /\ pushes = 0
  /\ boundary_quotes = <<>>
  /\ items = <<>>
  /\ interaction_records = <<>>
  /\ interaction_totals = TotalsOf(quote_buckets)
  /\ corpus = <<>>
  /\ term_texts = <<>>
  /\ zh_vocab = {}
  /\ doc_term_counts = <<>>
  /\ doc_freq = EmptyCounter
  /\ total_docs = 0
  /\ idf = <<>>
  /\ insights = None
  /\ pc = "rows"
  /\ tokenized = <<>>
  /\ IdleMsg
  /\ IdleRuns
  /\ IdleOut
  /\ IdleCall

\* one more user message, which raises the signal s: its counters and the
\* push_quote call of s; it may be the last message of the corpus
OfferQuote ==
  /\ pc = "rows"
  /\ pushes < MaxOffers
  /\ \E s \in Range(SIGNALS), text \in POOL_TEXTS, file \in QuoteFiles :
       /\ quote_buckets' =
            [quote_buckets EXCEPT ![s] = push_quote(@, PoolOffer(s, text, file), limit)]
       /\ offered' = [offered EXCEPT ![s] = Append(@, PoolOffer(s, text, file))]
       /\ truncated' = (truncated \/ Len(quote_buckets[s]) + 1 > limit)
       /\ interaction_totals' =
            [k \in DOMAIN interaction_totals |->
               IF k = "user_messages" THEN interaction_totals[k] + 1
               ELSE IF k = "user_chars" THEN interaction_totals[k] + CharLen(text)
               ELSE IF s # "vague" /\ k = SIGNAL_COUNTER[s] THEN interaction_totals[k] + 1
               ELSE interaction_totals[k]]
  /\ pushes' = pushes + 1
  /\ \E last \in BOOLEAN : pc' = IF last THEN "report" ELSE "rows"
  /\ UNCHANGED <<bucket, limit, boundary_quotes, items, interaction_records, corpus,
                 term_texts, zh_vocab, doc_term_counts, doc_freq, total_docs, idf,
                 insights, tokenized, msgVars, runVars, outVars, callVars>>

NextPools == OfferQuote \/ BuildInteractionReport

SpecPools == InitPools /\ [][NextPools]_vars

\* the files of the quotes of the report of the categories before place c
FilesOfEarlier(c) ==
  {report.quotes[j].file : j \in {k \in DOMAIN report.quotes : CategoryOf(report.quotes[k].label) < c}}

\* the quotes of the report are those of the pools that keep every candidate
SameAsUncapped == report.quotes = QuoteLoop(1, offered, <<>>)

\* C30: the quote of every category from the capped pool is the quote the
\* pool with every offered candidate would give, the offered candidate of the
\* highest score whose file no earlier category used, and a category has no
\* quote only if no offered candidate is of an unused file.
C30_CapChangesNothing ==
  pc = "reported" =>
    /\ SameAsUncapped
    /\ \A c \in DOMAIN QUOTE_ORDER :
         \E fresh \in {{e \in Range(offered[QUOTE_ORDER[c].key]) : e.file \notin FilesOfEarlier(c)}} :
           IF fresh = {}
           THEN \A k \in DOMAIN report.quotes : report.quotes[k].label # QUOTE_ORDER[c].label
           ELSE \E k \in DOMAIN report.quotes : \E e \in fresh :
                  /\ report.quotes[k].label = QUOTE_ORDER[c].label
                  /\ report.quotes[k].text = e.text
                  /\ report.quotes[k].file = e.file
                  /\ \A other \in fresh : other.score <= e.score

\* while no pool has lost a candidate the report is that of the full pools
UncappedSame == pc = "reported" /\ ~truncated => C30_CapChangesNothing

=============================================================================
